---------------------------- MODULE Spec2Model ----------------------------
(***************************************************************************)
(* aiFactCheck: evidence retrieval, ranking and verdict aggregation.       *)
(*                                                                         *)
(* The specifications of this module:                                      *)
(*   SpecAgg      the NLI weighted vote   (core/crew/verdict.py)           *)
(*   SpecClassify the LLM judges          (core/verification/*.py)         *)
(*   Spec         the request pipelines   (api/routes.py, crew/pipeline.py)*)
(*   SpecKG       the KG clients          (infrastructure/kg, services)    *)
(*   SpecRank     the evidence rankers    (core/ranking, core/crew)        *)
(*   SpecGather   the retrieval fan-out   (core/crew/retrievers.py)        *)
(*   SpecCache    the path cache          (services/kg_client.py)          *)
(*   SpecPage     the pagination loop     (infrastructure/kg/kg_client2.py)*)
(*   SpecLabel    the label search threads (services/entity_extractor.py)  *)
(*   SpecRuns     requests served in turn (api/routes.py and the caches)    *)
(*                                                                         *)
(* Numbers.  trust and NLI confidence are decimals in [0,1]; they are      *)
(* carried as integer hundredths (95 is 0.95).  A weight trust*confidence  *)
(* and the two masses are therefore in units of 1/10000 (14400 is 1.44),   *)
(* and the arithmetic is exact decimal arithmetic.  Values rounded to      *)
(* three places (round(x, 3)) are in thousandths.                          *)
(***************************************************************************)
EXTENDS Integers, Sequences, FiniteSets, TLC

VARIABLES
    \* ---- SpecAgg: one call of _aggregate(evidence, nli_out)
    evidence,      \* List[Dict]: the evidence items (snippet, source, trust)
    nli_out,       \* List[Dict]: batch_nli's output (label, confidence)
    agg,           \* the returned (label, confidence, final_ev), or NoCall
    \* ---- SpecClassify: one call of an LLM judge
    reply,         \* what chat() gave back (or that it raised)
    judged,        \* the judge called and what it returned or raised
    \* ---- Spec: one request through a pipeline
    handler,       \* the entry point serving the request
    pc,            \* the stage the handler is at
    req,           \* the request: claim and, for verify_claim_crew, its options
    triple,        \* parse_claim_to_triple's result
    s_cands,       \* linker.link(subject): List[EntityCandidate]
    o_cands,       \* linker.link(object)
    uris,          \* verify2 / verify_claim_crew: the linked DBpedia URIs
    paths,         \* fetch_paths' result: List[List[Edge]]
    ranked,        \* top_k's result: List[(path, score)]
    label,         \* the label variable of the handler ("absent": unset)
    web_ev,        \* the web evidence of the fallback stage
    response,      \* what the caller gets
    log,           \* the collaborator calls of the run, in order
    \* ---- SpecKG: one call of a KG client's fetch_paths
    kg_call,       \* the client, its arguments and the endpoints' behaviour
    kg_ret,        \* what the call returned or that it raised, and the
                   \* queries it sent, or NoCall
    \* ---- SpecRank: one call of an evidence ranker
    rank_call,     \* the ranker's arguments and the encoders' behaviour
    rank_ret,      \* what the call returned or that it raised, or NoCall
    \* ---- SpecGather: one call of gather_evidence on its event loop
    ga_call,       \* what the collaborators of the three branches do
    ga,            \* the event loop: ready handles, tasks, gather's future
    ga_ret,        \* what gather_evidence returned or that it raised
    \* ---- SpecCache: calls of the services KGClient on one redis store
    rdb,           \* the redis store: the entries set, each with its time
    now,           \* the time, in seconds
    seed,          \* the hash seed of the running process
    kc,            \* the client: its endpoints and its DBpedia handle
    last,          \* the call just made and what it returned, or NoCall
    written,       \* per URI sets and hop depth, the list last stored
    \* ---- SpecPage: one call of KGClient2._page
    pg_call,       \* the page size and the endpoint's answers
    pg,            \* the loop: rows, offset, the queries sent
    pg_ret,        \* what _page returned or that it raised, or NoCall
    \* ---- SpecLabel: one call of _link_to_dbpedia and its threads
    el_call,       \* what the two label searches do, the cache at the call
    el,            \* the caller, the pool's worker, the background thread
                   \* and the redis entry lbl:<label>
    el_ret,        \* what _link_to_dbpedia returned or that it raised
    \* ---- SpecRuns: the requests one server process after the other serves
    proc,          \* the process: the module-level cache of
                   \* triple_extractor, its set order, the requests served
    seen           \* the runs so far: handler, claim, the collaborators'
                   \* responses, and the response given

aggVars == <<evidence, nli_out, agg>>

clfVars == <<reply, judged>>

pipeVars == <<handler, pc, req, triple, s_cands, o_cands, uris, paths,
              ranked, label, web_ev, response, log>>

kgVars == <<kg_call, kg_ret>>

rankVars == <<rank_call, rank_ret>>

gaVars == <<ga_call, ga, ga_ret>>

cacheVars == <<rdb, now, seed, kc, last, written>>

pgVars == <<pg_call, pg, pg_ret>>

elVars == <<el_call, el, el_ret>>

runVars == <<proc, seen>>

moreVars == <<pgVars, elVars, runVars>>

restVars == <<gaVars, cacheVars, moreVars>>

vars == <<evidence, nli_out, agg, reply, judged, handler, pc, req, triple,
          s_cands, o_cands, uris, paths, ranked, label, web_ev, response, log,
          kg_call, kg_ret, rank_call, rank_ret, ga_call, ga, ga_ret,
          rdb, now, seed, kc, last, written, pg_call, pg, pg_ret,
          el_call, el, el_ret, proc, seen>>

-----------------------------------------------------------------------------
(* Bounds of the model *)

MaxEvidence == 3

MaxPaths == 2

MaxSnippets == 3

-----------------------------------------------------------------------------
(* Shared vocabulary *)

\* verifier.py:13 / verifier2.py:9 / verifier3.py:5, in that order
LABELS == <<"Supported", "Refuted", "Not Enough Info">>

LabelSet == {LABELS[i] : i \in 1..Len(LABELS)}

\* nli.py:14
NLI_LABELS == {"contradiction", "neutral", "entailment"}

NoCall == [called |-> FALSE]

Max(a, b) == IF a > b THEN a ELSE b

Min(a, b) == IF a < b THEN a ELSE b

\* Python's round(x, 3) of a value given in 1/10000, as thousandths.  The
\* values of the model are multiples of 1/1000, so no tie is ever rounded.
Round3(x) == (x + 5) \div 10

-----------------------------------------------------------------------------
(* core/crew/verdict.py: _aggregate *)

SUPPORT_THRESHOLD == 6000      \* 0.6  in 1/10000

MARGIN_NUM == 7                \* 0.7 = 7/10

MARGIN_DEN == 10

\* zip(evidence, nli_out): the pairs up to the shorter list
ZipLen(ev, nl) == Min(Len(ev), Len(nl))

\* the loop of lines 14-31: the state (support, refute, final_ev) after the
\* first n pairs
RECURSIVE AggLoop(_, _, _)
AggLoop(ev, nl, n) ==
    IF n = 0 THEN [support |-> 0, refute |-> 0, final_ev |-> <<>>]
    ELSE LET prev   == AggLoop(ev, nl, n - 1)
             weight == ev[n].trust * nl[n].confidence
             entry  == [source     |-> ev[n].source,
                        nli        |-> nl[n].label,
                        confidence |-> nl[n].confidence * 10,
                        trust      |-> ev[n].trust,   \* already 2 places
                        weight     |-> Round3(weight)]
         IN [support  |-> IF nl[n].label = "entailment"
                          THEN prev.support + weight ELSE prev.support,
             refute   |-> IF nl[n].label # "entailment"
                             /\ nl[n].label = "contradiction"
                          THEN prev.refute + weight ELSE prev.refute,
             final_ev |-> Append(prev.final_ev, entry)]

\* the decision with the comparisons made non-strict
DecideLabel_nonstrict(support, refute) ==
    LET total == support + refute
    IN IF total >= SUPPORT_THRESHOLD
          /\ MARGIN_DEN * Max(support, refute) >= MARGIN_NUM * total
       THEN (IF support > refute THEN "Supported" ELSE "Refuted")
       ELSE "Not Enough Info"

\* lines 33-37: the decision on the two masses
DecideLabel(support, refute) ==
    LET total == support + refute
    IN IF total > SUPPORT_THRESHOLD
          /\ MARGIN_DEN * Max(support, refute) > MARGIN_NUM * total
       THEN (IF support > refute THEN "Supported" ELSE "Refuted")
       ELSE "Not Enough Info"

_aggregate(ev, nl) ==
    LET s == AggLoop(ev, nl, ZipLen(ev, nl))
    IN [called     |-> TRUE,
        label      |-> DecideLabel(s.support, s.refute),
        confidence |-> Round3(Max(s.support, s.refute)),
        final_ev   |-> s.final_ev]

-----------------------------------------------------------------------------
(* The LLM oracle.  chat() either raises (API error, timeout) or returns a
   message whose content the judges parse.  Of a content the judges read
   only this:
     json     what json.loads(content) does: "object" (a JSON object),
              "other" (valid JSON that is no object: a list, a string, a
              number, null) or "none" (JSONDecodeError)
     embedded when json = "none": what the first fenced or braced {...}
              block gives: "object", "malformed" (JSONDecodeError) or
              "none" (no block)
     label    the value under "label" of the parsed object: a canonical
              label, "other" (any other value) or "absent"
     reasonStr  the value under "reason" is a string (or absent)
     scan     the canonical labels the raw text contains, ignoring case *)

NoReply == [ok |-> FALSE]

LabelValues == LabelSet \cup {"other", "absent"}

Replies ==
    {NoReply} \cup
    { r \in [ok : {TRUE}, json : {"object", "other", "none"},
             embedded : {"object", "malformed", "none"},
             label : LabelValues, reasonStr : BOOLEAN,
             scan : SUBSET LabelSet] :
        /\ r.json # "none" => r.embedded = "none"
        /\ (r.json # "object" /\ r.embedded # "object")
               => (r.label = "absent" /\ r.reasonStr)
        \* a canonical label in the object is in the text the scan reads
        /\ r.label \in LabelSet => r.label \in r.scan }

Returned(l) == [called |-> TRUE, kind |-> "ok", label |-> l]

Raised == [called |-> TRUE, kind |-> "raise", label |-> "absent"]

\* verifier.py:62-67, verifier2.py:202-207, verifier3.py:85-92: the plain-text
\* scan, `for lbl in LABELS: if lbl.lower() in txt.lower()`; "absent" when no
\* label is found
RECURSIVE ScanFrom(_, _)
ScanFrom(scan, i) ==
    IF i > Len(LABELS) THEN "absent"
    ELSE IF LABELS[i] \in scan THEN LABELS[i]
    ELSE ScanFrom(scan, i + 1)

ScanLabels(r) == ScanFrom(r.scan, 1)

\* Verifier.classify (core/verification/verifier.py:53-67)
Verifier_classify(r) ==
    IF ~r.ok THEN Raised                                   \* chat() raised
    ELSE IF r.json = "object" /\ r.label \in LabelSet
         THEN Returned(r.label)
    \* a non-object or a bad label: `except Exception: pass`, then the scan
    ELSE IF ScanLabels(r) # "absent" THEN Returned(ScanLabels(r))
    ELSE Returned("Not Enough Info")

\* Verifier.classify of the services package (services/verifier.py:71-90):
\* the scan is in the except branch, so a JSON object whose label is not
\* canonical leaves the default label
S_Verifier_classify(r) ==
    IF ~r.ok THEN Raised
    ELSE IF r.json = "object"
         THEN Returned(IF r.label \in LabelSet THEN r.label
                       ELSE "Not Enough Info")
    \* JSONDecodeError, or data.get on a non-object: AttributeError
    ELSE IF ScanLabels(r) # "absent" THEN Returned(ScanLabels(r))
    ELSE Returned("Not Enough Info")

\* Verifier2.classify (core/verification/verifier2.py:193-207)
Verifier2_classify(r) ==
    IF ~r.ok THEN Raised
    ELSE IF r.json = "object" /\ r.label \in LabelSet
         THEN Returned(r.label)
    ELSE IF ScanLabels(r) # "absent" THEN Returned(ScanLabels(r))
    ELSE Returned("Not Enough Info")

\* Verifier3.classify (core/verification/verifier3.py:69-100); only
\* json.JSONDecodeError is caught, and with evidence an unparsable reply
\* defaults to Supported
Verifier3_classify(r, ev) ==
    IF ~r.ok THEN Raised
    ELSE IF r.json = "other" THEN Raised       \* parsed.get: AttributeError
    ELSE IF r.json = "object" /\ r.label \in LabelSet
         THEN (IF r.reasonStr THEN Returned(r.label)
               ELSE Raised)                    \* reason.strip(): AttributeError
    ELSE IF ScanLabels(r) # "absent" THEN Returned(ScanLabels(r))
    ELSE IF ev = <<>> THEN Returned("Not Enough Info")
    ELSE Returned("Supported")

\* data.get("label", "Not Enough Info"): the value as it is, the default only
\* when the key is absent
GetLabel(r) == IF r.label = "absent" THEN "Not Enough Info" ELSE r.label

\* WebVerifier._extract_json (core/verification/web_verifier.py:229-260)
_extract_json(r) ==
    IF r.json = "object" THEN Returned(GetLabel(r))
    ELSE IF r.json = "other" THEN Raised       \* data.get: AttributeError
    ELSE IF r.embedded = "object" THEN Returned(GetLabel(r))
    ELSE Returned("Not Enough Info")           \* no block, or malformed

\* WebVerifier._classify_with_llm (web_verifier.py:262-284)
_classify_with_llm(r) == IF ~r.ok THEN Raised ELSE _extract_json(r)

\* Verifier.llm_fallback_classify, lines 129-139: the reply's parse
llm_fallback_parse(r) ==
    IF ~r.ok THEN Raised
    ELSE IF r.json = "object" THEN Returned(GetLabel(r))
    ELSE Returned("Not Enough Info")           \* except Exception

-----------------------------------------------------------------------------
(* Lists *)

Take(seq, n) == SubSeq(seq, 1, Min(n, Len(seq)))

RECURSIVE SelectSeqBy(_, _, _)
\* [x for x in seq if keep[x]] with keep given per position
SelectSeqBy(seq, keep, i) ==
    IF i > Len(seq) THEN <<>>
    ELSE (IF keep[i] THEN <<seq[i]>> ELSE <<>>) \o SelectSeqBy(seq, keep, i + 1)

\* sorted(xs, key=score, reverse=True): stable, equal scores keep their order
RECURSIVE InsertDesc(_, _)
InsertDesc(sorted, x) ==
    IF sorted = <<>> THEN <<x>>
    ELSE IF Head(sorted).score >= x.score
         THEN <<Head(sorted)>> \o InsertDesc(Tail(sorted), x)
         ELSE <<x>> \o sorted

RECURSIVE SortDesc(_)
SortDesc(xs) ==
    IF xs = <<>> THEN <<>>
    ELSE InsertDesc(SortDesc(SubSeq(xs, 1, Len(xs) - 1)), xs[Len(xs)])

-----------------------------------------------------------------------------
(* core/linking/entity_linker.py: EntityLinker.link

   Scores are decimals in [0,1] carried in units of 1/300 (so that
   1 - rank/top_k is exact for top_k = 3).  The lookups are the oracle `lk`:
     lk.wd   the request raised, or the hits of _wd_search in rank order,
             each with what _wd_to_dbp gives for it: a DBpedia URI, "None"
             or "raise"
     lk.dl   the request raised, or the docs of DBpedia Lookup that carry a
             URI, each with its score
     lk.sp   the request raised, or Spotlight's resources for the surface *)

ScoreScale == 300

HEURISTIC_SCORE == 60          \* 0.2

\* surface.strip() on the surface forms of the model
Strip(surface) == IF surface \in {"", " "} THEN "" ELSE surface

Failure == [kind |-> "raise"]

Ok(v) == [kind |-> "ok", value |-> v]

\* _wd_lookup, lines 54-70
_wd_lookup(surface, max_hits, wd) ==
    IF wd.raise THEN Failure
    ELSE IF \E i \in 1..Min(Len(wd.hits), max_hits) : wd.hits[i] = "raise"
         THEN Failure
    ELSE Ok([i \in 1..Min(Len(wd.hits), max_hits) |->
                [surface_form |-> surface,
                 dbpedia_uri  |-> wd.hits[i],
                 wikidata_uri |-> "wd:Q" \o ToString(i),
                 score        |-> ScoreScale
                                  - ((i - 1) * ScoreScale) \div Max(max_hits, 1)]])

\* _dbp_lookup, lines 75-103 (the endpoint honours maxResults or not: the
\* list is returned whole)
_dbp_lookup(surface, max_hits, dl) ==
    IF dl.raise THEN Failure
    ELSE Ok([i \in 1..Len(dl.hits) |->
                [surface_form |-> surface, dbpedia_uri |-> dl.hits[i].uri,
                 wikidata_uri |-> "None", score |-> dl.hits[i].score]])

\* _spotlight, lines 105-123
_spotlight(surface, max_hits, sp) ==
    IF sp.raise THEN Failure
    ELSE Ok(Take(SortDesc([i \in 1..Len(sp.hits) |->
                [surface_form |-> surface, dbpedia_uri |-> sp.hits[i].uri,
                 wikidata_uri |-> "None", score |-> sp.hits[i].score]]), max_hits))

\* lines 144-150: the heuristic candidate, the sort and the cut
LinkFinish(surface, top_k, cands) ==
    LET all == IF cands = <<>>
                  \/ ~\E i \in DOMAIN cands : cands[i].dbpedia_uri # "None"
               THEN Append(cands, [surface_form |-> surface,
                                   dbpedia_uri  |-> "dbr:" \o surface,
                                   wikidata_uri |-> "None",
                                   score        |-> HEURISTIC_SCORE])
               ELSE cands
    IN Take(SortDesc(all), top_k)

\* link, lines 128-150
link(surface0, top_k, lk) ==
    LET surface == Strip(surface0)
        c1 == _wd_lookup(surface, top_k, lk.wd)
        c2 == _dbp_lookup(surface, top_k, lk.dl)
        c3 == _spotlight(surface, top_k, lk.sp)
    IN IF surface = "" THEN Ok(<<>>)
       ELSE IF c1.kind = "raise" THEN Failure
       ELSE IF c1.value # <<>> THEN Ok(LinkFinish(surface, top_k, c1.value))
       ELSE IF c2.kind = "raise" THEN Failure
       ELSE IF c2.value # <<>> THEN Ok(LinkFinish(surface, top_k, c2.value))
       ELSE IF c3.kind = "raise" THEN Failure
       ELSE Ok(LinkFinish(surface, top_k, c3.value))

\* routes.py:109-112: [c.dbpedia_uri for c in cands if c.dbpedia_uri] etc.
DbpUris(cands) ==
    SelectSeqBy([i \in DOMAIN cands |-> cands[i].dbpedia_uri],
                [i \in DOMAIN cands |-> cands[i].dbpedia_uri # "None"], 1)

WdUris(cands) ==
    SelectSeqBy([i \in DOMAIN cands |-> cands[i].wikidata_uri],
                [i \in DOMAIN cands |-> cands[i].wikidata_uri # "None"], 1)

\* the lookups the model draws from
Answer(hits) == [raise |-> FALSE, hits |-> hits]

NoAnswer == [raise |-> TRUE, hits |-> <<>>]

WdAnswers == { NoAnswer, Answer(<<>>), Answer(<<"None">>), Answer(<<"dbr:A">>),
               Answer(<<"None", "None", "None">>), Answer(<<"raise">>) }

DlAnswers == { NoAnswer, Answer(<<>>),
               Answer(<<[uri |-> "dbr:B", score |-> 270]>>) }

SpAnswers == { NoAnswer, Answer(<<>>),
               Answer(<<[uri |-> "dbr:C", score |-> 240]>>) }

Lookups == [wd : WdAnswers, dl : DlAnswers, sp : SpAnswers]

LINK_TOP_K == 3                \* routes.py:106-107

\* the lookups a request of the pipeline meets: Wikidata down, with a hit
\* that maps to DBpedia, with three hits that do not
PipeLookups ==
    { lk \in Lookups :
        /\ lk.dl = Answer(<<>>) /\ lk.sp = Answer(<<>>)
        /\ lk.wd \in { NoAnswer, Answer(<<"dbr:A">>),
                       Answer(<<"None", "None", "None">>) } }

-----------------------------------------------------------------------------
(* core/ranking/evidence_ranker.py: EvidenceRanker.top_k

   A predicate is the sequence of the characters of its local name; the
   namespaces of the model's predicates (http://dbpedia.org/ontology/,
   http://www.w3.org/1999/02/22-rdf-syntax-ns#) contain none of the
   keywords of is_weak_predicate. *)

P_capital == <<"c", "a", "p", "i", "t", "a", "l">>

P_homepage == <<"h", "o", "m", "e", "p", "a", "g", "e">>

\* `keyword in pred`
Contains(pred, kw) ==
    \E i \in 0..(Len(pred) - Len(kw)) :
        \A j \in 1..Len(kw) : pred[i + j] = kw[j]

WEAK_KEYWORDS ==
    { <<"w","i","k","i","P","a","g","e">>, <<"s","a","m","e","A","s">>,
      <<"s","e","e","A","l","s","o">>,
      <<"e","x","t","e","r","n","a","l","L","i","n","k">>,
      <<"r","e","d","i","r","e","c","t","s">>, <<"l","a","b","e","l">>,
      <<"c","o","m","m","e","n","t">>, <<"s","u","b","j","e","c","t">>,
      <<"p","a","g","e">>, <<"t","y","p","e">>, <<"u","r","l">> }

\* is_weak_predicate, lines 43-48
is_weak_predicate(pred) == \E kw \in WEAK_KEYWORDS : Contains(pred, kw)

Edge(s, p, o) == [subject |-> s, predicate |-> p, object |-> o,
                  source_kg |-> "dbpedia"]

PRE_RANK == 100                \* evidence_ranker.py:71

\* top_k, lines 51-86.  sc[i] is what the encoders give for paths[i]:
\* sim, the sentence similarity, and ent, subj_sim + obj_sim (hundredths);
\* a score is 0.7*sim + 0.25*subj_sim + 0.25*obj_sim, in 1/10000.
EvidenceRanker_top_k(ps, k, sc) ==
    LET keep     == [i \in DOMAIN ps |->
                       ~( is_weak_predicate(ps[i][1].predicate)
                          \/ is_weak_predicate(ps[i][Len(ps[i])].predicate) )]
        idx      == SelectSeqBy([i \in DOMAIN ps |-> i], keep, 1)
        sentOnly == [j \in DOMAIN idx |->
                        [score |-> sc[idx[j]].sim, i |-> idx[j]]]
        top      == Take(SortDesc(sentOnly), PRE_RANK)
        scored   == [j \in DOMAIN top |->
                        [score |-> 70 * top[j].score + 25 * sc[top[j].i].ent,
                         path  |-> ps[top[j].i]]]
    IN Take(SortDesc(scored), k)

\* core/ranking/evidence_ranker2.py: EvidenceRanker2.top_k, lines 45-93,
\* called with use_bi_encoder=False: the cross-encoder scores every path
EvidenceRanker2_top_k(ps, k, sc) ==
    Take(SortDesc([i \in DOMAIN ps |->
             [score |-> sc[i].sim, path |-> ps[i]]]), k)

\* the paths and encoder scores the model draws from
PathPool == { <<Edge("S", P_capital, "O")>>,
              <<Edge("S2", P_capital, "O")>>,
              <<Edge("S", P_homepage, "X"), Edge("X", P_capital, "O")>> }

ScorePool == { [sim |-> 20, ent |-> 100], [sim |-> 30, ent |-> 0] }

ClfIdle == reply = NoReply /\ judged = NoCall

KGIdle == kg_call = NoCall /\ kg_ret = NoCall

RankIdle == rank_call = NoCall /\ rank_ret = NoCall

BRANCHES == <<"wikidata", "dbpedia", "web">>    \* retrievers.py:136-138

Pending == [kind |-> "pending"]

\* the event loop before gather_evidence is called
LoopIdle ==
    [ready |-> <<>>, tasks |-> [i \in DOMAIN BRANCHES |-> Pending],
     nfinished |-> 0, outer |-> Pending, main |-> "none"]

GatherIdle == ga_call = NoCall /\ ga = LoopIdle /\ ga_ret = NoCall

HASH_SEEDS == <<"seed1", "seed2">>

CacheIdle ==
    /\ rdb = {} /\ now = 0 /\ seed = HASH_SEEDS[1]
    /\ kc = [dbp_sparql |-> "", active |-> "", initial |-> "", public |-> ""]
    /\ last = NoCall /\ written = {}

\* _page before its first query, kg_client2.py:61
PageStart == [rows |-> <<>>, offset |-> 0, sent |-> <<>>]

PageIdle == pg_call = NoCall /\ pg = PageStart /\ pg_ret = NoCall

\* no thread started, no entry under the key (cache holds the string of
\* the entry, if there is one)
ThreadsIdle ==
    [caller |-> "idle", linked |-> <<>>, worker |-> "idle", bg |-> "none",
     bg_value |-> <<>>, timed_out |-> FALSE, cache |-> <<>>]

LabelIdle == el_call = NoCall /\ el = ThreadsIdle /\ el_ret = NoCall

\* a process that has served nothing: triple_extractor.py:11, cache = {}
FreshProcess(order) == [cache |-> {}, order |-> order, served |-> 0]

RunsIdle == proc = FreshProcess(<<>>) /\ seen = {}

MoreIdle == PageIdle /\ LabelIdle /\ RunsIdle

RestIdle == GatherIdle /\ CacheIdle /\ MoreIdle

NoResponse == [status |-> 0]

NoTriple == [found |-> FALSE, subject |-> "", object |-> ""]

PipeIdle ==
    /\ handler = "none" /\ pc = "idle" /\ req = [claim |-> ""]
    /\ triple = NoTriple /\ s_cands = <<>> /\ o_cands = <<>> /\ uris = <<>>
    /\ paths = <<>> /\ ranked = <<>> /\ label = "absent" /\ web_ev = <<>>
    /\ response = NoResponse /\ log = <<>>

-----------------------------------------------------------------------------
(* SpecAgg: _aggregate applied to every bounded evidence list *)

\* trust values (hundredths): trust.py's priors 0.9 and 1.0 for KG edges
\* (retrievers.py:96), and two low-trust values
TrustVals == {30, 70, 90, 100}

\* batch_nli outputs: argmax label and its probability (hundredths)
NliOuts == { [label |-> "entailment",    confidence |-> 95],
             [label |-> "entailment",    confidence |-> 60],
             [label |-> "contradiction", confidence |-> 80],
             [label |-> "neutral",       confidence |-> 80] }

EvItems == { [source |-> "web", trust |-> t] : t \in TrustVals }

SeqsUpTo(S, n) == UNION { [1..k -> S] : k \in 0..n }

InitAgg ==
    /\ \E k \in 0..MaxEvidence :
          /\ evidence \in [1..k -> EvItems]
          /\ nli_out  \in [1..k -> NliOuts]     \* one output per premise
    /\ agg = NoCall
    /\ ClfIdle
    /\ PipeIdle
    /\ KGIdle
    /\ RankIdle
    /\ RestIdle

RunAggregate ==
    /\ agg = NoCall
    /\ agg' = _aggregate(evidence, nli_out)
    /\ UNCHANGED <<evidence, nli_out, clfVars, pipeVars, kgVars, rankVars, restVars>>

NextAgg == RunAggregate

SpecAgg == InitAgg /\ [][NextAgg]_vars

-----------------------------------------------------------------------------
(* SpecClassify: every judge of the verdict stage applied to every reply *)

InitClassify ==
    /\ \E k \in 0..1 :
          /\ evidence \in [1..k -> EvItems]
          /\ nli_out  \in [1..k -> NliOuts]
    /\ agg = NoCall
    /\ reply \in Replies
    /\ judged = NoCall
    /\ PipeIdle
    /\ KGIdle
    /\ RankIdle
    /\ RestIdle

Judge(by, out) ==
    /\ judged = NoCall
    /\ judged' = [out EXCEPT !.called = TRUE] @@ [by |-> by]
    /\ UNCHANGED <<evidence, nli_out, agg, reply, pipeVars, kgVars, rankVars, restVars>>

J_Verifier == Judge("Verifier.classify", Verifier_classify(reply))

J_ServicesVerifier ==
    Judge("services.Verifier.classify", S_Verifier_classify(reply))

J_Verifier2 == Judge("Verifier2.classify", Verifier2_classify(reply))

J_Verifier3 == Judge("Verifier3.classify", Verifier3_classify(reply, evidence))

J_WebVerifier == Judge("WebVerifier._classify_with_llm", _classify_with_llm(reply))

J_LlmFallback == Judge("Verifier.llm_fallback_classify", llm_fallback_parse(reply))

J_Aggregate == Judge("_aggregate", Returned(_aggregate(evidence, nli_out).label))

NextClassify ==
    \/ J_Verifier \/ J_ServicesVerifier \/ J_Verifier2 \/ J_Verifier3
    \/ J_WebVerifier \/ J_LlmFallback \/ J_Aggregate

SpecClassify == InitClassify /\ [][NextClassify]_vars

-----------------------------------------------------------------------------
(* Spec: one request through verify, verify2 or verify_claim_crew.  Every
   action is one stage of a handler: the collaborator call it makes, drawn
   from every answer the collaborator can give, and the handler's code up to
   the next call.  An exception no handler code catches ends the run with
   the response Unhandled. *)

Claims == {"", "c"}

NEI == "Not Enough Info"

Respond(l, why) == [status |-> 200, label |-> l, reason |-> why]

BadRequest == [status |-> 400, label |-> "absent",
               reason |-> "JSON body must contain 'claim'"]

Unhandled == [status |-> 500, label |-> "absent", reason |-> "exception"]

\* verify_claim_crew fell off its if/elif and returned None
ReturnedNone == [status |-> 200, label |-> "absent", reason |-> "None"]

Finish(resp) == response' = resp /\ pc' = "done"

Goto(stage) == response' = response /\ pc' = stage

\* the call log: a call that returned, a call that raised, and a
\* classification with the label it returned
Entry(name, out) == [call |-> name, out |-> out]

Called(name) == log' = Append(log, Entry(name, "ok"))

Failed(name) == log' = Append(log, Entry(name, "raise"))

Answered(name, out) == log' = Append(log, Entry(name, out))

Quiet == UNCHANGED <<aggVars, clfVars, kgVars, rankVars, restVars>>

\* parse_claim_to_triple's answers: it raised, None, or the first triple
Triples == [found : {TRUE}, subject : {"", "Paris"}, object : {" ", "France"}]

KGPaths == SeqsUpTo(PathPool, MaxPaths)

\* the organic results of a web search, as the dicts the handlers build
WebPool == { [source |-> "bbc.co.uk", trust |-> 90],
             [source |-> "example.org", trust |-> 50] }

WebResults == SeqsUpTo(WebPool, MaxSnippets)

\* ------------------------------------------------------------- /verify

\* routes.py:83-88
V_Receive ==
    /\ pc = "idle"
    /\ \E claim \in Claims :
         /\ handler' = "verify" /\ req' = [claim |-> claim]
         /\ IF claim = "" THEN Finish(BadRequest) ELSE Goto("extract")
    /\ UNCHANGED <<triple, s_cands, o_cands, uris, paths, ranked, label,
                   web_ev, log>>
    /\ Quiet

\* routes.py:90-102
V_Extract ==
    /\ handler = "verify" /\ pc = "extract"
    /\ \/ /\ Failed("extract")            \* chat() or json.loads raised
          /\ Finish(Unhandled)
          /\ UNCHANGED triple
       \/ /\ Called("extract")
          /\ Finish(Respond(NEI, "Could not extract a semantic triple from the claim."))
          /\ UNCHANGED triple
       \/ /\ Called("extract")
          /\ \E t \in Triples : triple' = t /\ Goto("link_s")
    /\ UNCHANGED <<handler, req, s_cands, o_cands, uris, paths, ranked, label,
                   web_ev>>
    /\ Quiet

\* routes.py:105-106
V_LinkSubject ==
    /\ handler = "verify" /\ pc = "link_s"
    /\ \E lk \in PipeLookups :
         LET r == link(triple.subject, LINK_TOP_K, lk)
         IN IF r.kind = "raise"
            THEN Failed("link") /\ Finish(Unhandled) /\ UNCHANGED s_cands
            ELSE Called("link") /\ s_cands' = r.value /\ Goto("link_o")
    /\ UNCHANGED <<handler, req, triple, o_cands, uris, paths, ranked, label,
                   web_ev>>
    /\ Quiet

\* routes.py:114: not (s_dbp or s_wd) or not (o_dbp or o_wd)
NotLinked(sc, oc) ==
    \/ (DbpUris(sc) = <<>> /\ WdUris(sc) = <<>>)
    \/ (DbpUris(oc) = <<>> /\ WdUris(oc) = <<>>)

\* routes.py:107-127
V_LinkObject ==
    /\ handler = "verify" /\ pc = "link_o"
    /\ \E lk \in PipeLookups :
         LET r == link(triple.object, LINK_TOP_K, lk)
         IN IF r.kind = "raise"
            THEN Failed("link") /\ Finish(Unhandled) /\ UNCHANGED o_cands
            ELSE /\ Called("link")
                 /\ o_cands' = r.value
                 /\ IF NotLinked(s_cands, r.value)
                    THEN Finish(Respond(NEI, "Could not link entities to KG URIs."))
                    ELSE Goto("kg")
    /\ UNCHANGED <<handler, req, triple, s_cands, uris, paths, ranked, label,
                   web_ev>>
    /\ Quiet

\* routes.py:129-136, 142-144; KGClient.fetch_paths (kg_client.py:27-65)
\* catches every SPARQL failure and hands back what the graph holds
V_FetchPaths ==
    /\ handler = "verify" /\ pc = "kg"
    /\ Called("fetch_paths")
    /\ \E ps \in KGPaths :
         /\ paths' = ps
         /\ IF ps # <<>> THEN Goto("rank") ELSE Goto("classify")
    /\ UNCHANGED <<handler, req, triple, s_cands, o_cands, uris, ranked, label,
                   web_ev>>
    /\ Quiet

VERIFY_K == 5                  \* routes.py:138

\* routes.py:137-140: ranked[0] raises IndexError on an empty ranking
V_Rank ==
    /\ handler = "verify" /\ pc = "rank"
    /\ Called("top_k")
    /\ \E sc \in [DOMAIN paths -> ScorePool] :
         LET r == EvidenceRanker_top_k(paths, VERIFY_K, sc)
         IN /\ ranked' = r
            /\ IF r = <<>> THEN Finish(Unhandled) ELSE Goto("classify")
    /\ UNCHANGED <<handler, req, triple, s_cands, o_cands, uris, paths, label,
                   web_ev>>
    /\ Quiet

\* a handler that falls back whatever the KG verdict
StillNotEnoughInfo_any(l) == TRUE

\* routes.py:148: if label == "Not Enough Info"
StillNotEnoughInfo(l) == l = NEI

\* routes.py:141, 145, 147-148, 169-182
V_Classify ==
    /\ handler = "verify" /\ pc = "classify"
    /\ \E out \in {Verifier_classify(r) : r \in Replies} :
            IF out.kind = "raise"
            THEN Failed("classify") /\ Finish(Unhandled) /\ UNCHANGED label
            ELSE /\ Answered("classify", out.label)
                 /\ label' = out.label
                 /\ IF StillNotEnoughInfo(out.label) THEN Goto("web_search")
                    ELSE Finish(Respond(out.label, "kg"))
    /\ UNCHANGED <<handler, req, triple, s_cands, o_cands, uris, paths, ranked,
                   web_ev>>
    /\ Quiet

\* routes.py:149 into Verifier.llm_fallback_classify, verifier.py:74-107:
\* the SerpAPI request.  Without a key no request is made; requests.get is
\* under no try.
V_WebSearch ==
    /\ handler = "verify" /\ pc = "web_search"
    /\ \/ /\ Failed("llm_fallback_classify")   \* Settings has no SERPAPI_KEY
          /\ Finish(Unhandled) /\ UNCHANGED web_ev \* (config.py:7-31)
       \/ /\ Called("llm_fallback_classify")   \* the key is empty: no search
          /\ web_ev' = <<>> /\ Goto("web_classify")
       \/ /\ log' = log \o << Entry("llm_fallback_classify", "ok"),
                              Entry("web_search", "raise") >>
          /\ Finish(Unhandled) /\ UNCHANGED web_ev  \* timeout, no route
       \/ /\ log' = log \o << Entry("llm_fallback_classify", "ok"),
                              Entry("web_search", "ok") >>
          /\ \/ web_ev' = <<>> /\ Goto("web_classify")  \* not resp.ok
             \/ \E ws \in WebResults : web_ev' = ws /\ Goto("web_classify")
    /\ UNCHANGED <<handler, req, triple, s_cands, o_cands, uris, paths, ranked,
                   label>>
    /\ Quiet

\* verifier.py:109-139 and routes.py:149-182: both returns carry `label`
V_WebClassify ==
    /\ handler = "verify" /\ pc = "web_classify"
    /\ \E out \in {llm_fallback_parse(r) : r \in Replies} :
            IF out.kind = "raise"
            THEN Failed("web_classify") /\ Finish(Unhandled) /\ UNCHANGED label
            ELSE /\ Answered("web_classify", out.label)
                 /\ label' = out.label
                 /\ Finish(Respond(out.label, "web"))
    /\ UNCHANGED <<handler, req, triple, s_cands, o_cands, uris, paths, ranked,
                   web_ev>>
    /\ Quiet

\* ------------------------------------------------------------ /verify2

\* EntityLinker2.link's answers (entity_linker2.py:34-80): a deduplicated
\* list of DBpedia URLs
LinkedUris == {<<>>, <<"dbr:S">>, <<"dbr:S", "dbr:O">>}

VERIFY2_K == 10                \* routes.py:255

\* routes.py:184-190
V2_Receive ==
    /\ pc = "idle"
    /\ \E claim \in Claims :
         /\ handler' = "verify2" /\ req' = [claim |-> claim]
         /\ IF claim = "" THEN Finish(BadRequest) ELSE Goto("link2")
    /\ UNCHANGED <<triple, s_cands, o_cands, uris, paths, ranked, label,
                   web_ev, log>>
    /\ Quiet

\* routes.py:207-226
V2_Link ==
    /\ handler = "verify2" /\ pc = "link2"
    /\ \/ Failed("link") /\ Finish(Unhandled) /\ UNCHANGED uris
       \/ \E dbp \in LinkedUris :
            /\ Called("link")
            /\ uris' = dbp
            /\ IF dbp = <<>>
               THEN Finish(Respond(NEI, "Could not link entities to KG URIs."))
               ELSE Goto("kg2")
    /\ UNCHANGED <<handler, req, triple, s_cands, o_cands, paths, ranked, label,
                   web_ev>>
    /\ Quiet

\* routes.py:228-237; KGClient2._page has no try (kg_client2.py:60-70)
V2_FetchPaths ==
    /\ handler = "verify2" /\ pc = "kg2"
    /\ \/ Failed("fetch_paths") /\ Finish(Unhandled) /\ UNCHANGED paths
       \/ \E ps \in KGPaths :
            /\ Called("fetch_paths")
            /\ paths' = ps
            /\ IF ps = <<>> THEN Goto("classify2") ELSE Goto("rank2")
    /\ UNCHANGED <<handler, req, triple, s_cands, o_cands, uris, ranked, label,
                   web_ev>>
    /\ Quiet

\* routes.py:252-256
V2_Rank ==
    /\ handler = "verify2" /\ pc = "rank2"
    /\ Called("top_k")
    /\ \E sc \in [DOMAIN paths -> ScorePool] :
         ranked' = EvidenceRanker2_top_k(paths, VERIFY2_K, sc)
    /\ Goto("classify2")
    /\ UNCHANGED <<handler, req, triple, s_cands, o_cands, uris, paths, label,
                   web_ev>>
    /\ Quiet

\* routes.py:237-250 (no paths) and 284-299 (ranked paths)
V2_Classify ==
    /\ handler = "verify2" /\ pc = "classify2"
    /\ \E out \in {Verifier2_classify(r) : r \in Replies} :
            IF out.kind = "raise"
            THEN Failed("classify") /\ Finish(Unhandled) /\ UNCHANGED label
            ELSE /\ Answered("classify", out.label)
                 /\ label' = out.label
                 /\ Finish(Respond(out.label, "kg"))
    /\ UNCHANGED <<handler, req, triple, s_cands, o_cands, uris, paths, ranked,
                   web_ev>>
    /\ Quiet

\* ------------------------------------- /verify_crewAI, verify_claim_crew

Modes == {"hybrid", "web_only", "kg_only"}

Classifiers == {"LLM", "DEBERTA"}

CREW_K == 3                    \* pipeline.py:124-125, 129, 99

KG_THRESHOLD == 6000           \* pipeline.py:146, threshold=0.6

WEB_THRESHOLD == 100           \* pipeline.py:84 and 213, threshold=0.01

\* pipeline.py:84, 146, 213 call aggregate(evidence, nli_out, threshold=t):
\* the NLI weighted vote with its support threshold as a parameter
DecideLabelAt(support, refute, threshold) ==
    LET total == support + refute
    IN IF total > threshold
          /\ MARGIN_DEN * Max(support, refute) > MARGIN_NUM * total
       THEN (IF support > refute THEN "Supported" ELSE "Refuted")
       ELSE "Not Enough Info"

aggregate(ev, nl, threshold) ==
    LET s == AggLoop(ev, nl, ZipLen(ev, nl))
    IN [label      |-> DecideLabelAt(s.support, s.refute, threshold),
        confidence |-> Round3(Max(s.support, s.refute))]

\* pipeline.py:97-100, 165-166: StructuredVerifier and SnippetVerifier, the
\* LLM judge: structured parse, then the label scan, then Not Enough Info;
\* empty evidence and a failed call both give Not Enough Info
JudgeLLM(r, ev) ==
    IF ev = <<>> \/ ~r.ok THEN NEI
    ELSE IF r.json = "object" /\ r.label \in LabelSet THEN r.label
    ELSE IF ScanLabels(r) # "absent" THEN ScanLabels(r)
    ELSE NEI

StructuredVerifier_classify(r, edges) == JudgeLLM(r, edges)

SnippetVerifier_classify(r, snippets) == JudgeLLM(r, snippets)

\* pipeline.py:38-45
RECURSIVE FlattenFrom(_, _, _, _)
FlattenFrom(ranked_paths, k, i, edges) ==
    IF i > Len(ranked_paths) THEN edges
    ELSE LET more == edges \o ranked_paths[i].path
         IN IF Len(more) >= k THEN more
            ELSE FlattenFrom(ranked_paths, k, i + 1, more)

_flatten_edges(ranked_paths, k) == Take(FlattenFrom(ranked_paths, k, 1, <<>>), k)

\* pipeline.py:134-141: one evidence dict per edge, trust 1.0
ev_list(edges) ==
    [i \in DOMAIN edges |-> [source |-> "knowledge_graph", trust |-> 100]]

\* batch_nli (nli.py:28-49): one {label, confidence} per premise
NliAnswers(ev) == [DOMAIN ev -> NliOuts]

\* a dispatch that sends the hybrid mode to the web branch as well
CrewEntry_web_first(mode) ==
    IF mode \in {"web_only", "hybrid"} THEN Goto("c_web")
    ELSE Finish(ReturnedNone)

\* pipeline.py:60, 115, 251
CrewEntry(mode) ==
    IF mode = "web_only" THEN Goto("c_web")
    ELSE IF mode = "hybrid" THEN Goto("c_kg")
    ELSE Finish(ReturnedNone)

InCrew == handler \in {"verify_crewAI", "verify_claim_crew"}

\* routes.py:35-43: the route passes the claim alone, the rest are defaults
C_ReceiveCrewAI ==
    /\ pc = "idle"
    /\ handler' = "verify_crewAI"
    /\ \E claim \in Claims :
         /\ req' = [claim |-> claim, mode |-> "web_only",
                    classifierDbpedia |-> "LLM", classifierBackup |-> "LLM"]
         /\ IF claim = "" THEN Finish(BadRequest) ELSE CrewEntry("web_only")
    /\ UNCHANGED <<triple, s_cands, o_cands, uris, paths, ranked, label,
                   web_ev, log>>
    /\ Quiet

\* pipeline.py:49-60, 115, 251: a direct call with its keyword arguments
C_Call ==
    /\ pc = "idle"
    /\ handler' = "verify_claim_crew"
    /\ \E mode \in Modes, cd \in Classifiers, cb \in Classifiers :
         /\ req' = [claim |-> "c", mode |-> mode,
                    classifierDbpedia |-> cd, classifierBackup |-> cb]
         /\ CrewEntry(mode)
    /\ UNCHANGED <<triple, s_cands, o_cands, uris, paths, ranked, label,
                   web_ev, log>>
    /\ Quiet

\* pipeline.py:119-122: KGEvidenceRetriever.retrieve links the claim and
\* fetches the paths; a failure inside it leaves it with nothing to return
C_KG ==
    /\ InCrew /\ pc = "c_kg"
    /\ Called("kg_retrieve")
    /\ \E us \in LinkedUris, ps \in KGPaths :
         /\ us = <<>> => ps = <<>>
         /\ uris' = us /\ paths' = ps
         /\ IF ps # <<>> THEN Goto("c_rank") ELSE Goto("c_web")
    /\ UNCHANGED <<handler, req, triple, s_cands, o_cands, ranked, label,
                   web_ev>>
    /\ Quiet

\* pipeline.py:123-125: EvidenceRanker(claim_text=claim).top_k(paths, k=3,
\* use_bi_encoder=False), the constructor and top_k of evidence_ranker2.py
C_Rank ==
    /\ InCrew /\ pc = "c_rank"
    /\ Called("top_k")
    /\ \E sc \in [DOMAIN paths -> ScorePool] :
         ranked' = EvidenceRanker2_top_k(paths, CREW_K, sc)
    /\ Goto("c_classify")
    /\ UNCHANGED <<handler, req, triple, s_cands, o_cands, uris, paths, label,
                   web_ev>>
    /\ Quiet

\* pipeline.py:38-45 without the early break: every edge of every path
RECURSIVE AllEdges(_, _)
AllEdges(ranked_paths, i) ==
    IF i > Len(ranked_paths) THEN <<>>
    ELSE ranked_paths[i].path \o AllEdges(ranked_paths, i + 1)

\* pipeline.py:127-146 and 164-166: the label the KG classifier can give
KGVerdicts(classifier, ranked_paths) ==
    IF classifier = "DEBERTA"
    THEN LET ev == ev_list(Take(AllEdges(ranked_paths, 1), CREW_K))
         IN { aggregate(ev, nl, KG_THRESHOLD).label : nl \in NliAnswers(ev) }
    ELSE { StructuredVerifier_classify(r, _flatten_edges(ranked_paths, CREW_K))
             : r \in Replies }

\* pipeline.py:82-84, 97-100, 211-213, 232-235: the label of the web branch
WebVerdicts(classifier, ev) ==
    IF classifier = "DEBERTA"
    THEN { aggregate(ev, nl, WEB_THRESHOLD).label : nl \in NliAnswers(ev) }
    ELSE { SnippetVerifier_classify(r, Take(ev, CREW_K)) : r \in Replies }

\* pipeline.py:127-182
C_ClassifyKG ==
    /\ InCrew /\ pc = "c_classify"
    /\ \E lbl \in KGVerdicts(req.classifierDbpedia, ranked) :
         /\ Answered("classify", lbl)
         /\ label' = lbl
         /\ IF lbl \in {"Supported", "Refuted"}
            THEN Finish(Respond(lbl, "kg"))
            ELSE Goto("c_web")
    /\ UNCHANGED <<handler, req, triple, s_cands, o_cands, uris, paths, ranked,
                   web_ev>>
    /\ Quiet

\* pipeline.py:64-75 (web_only) and 188-204 (hybrid):
\* WebEvidenceRetriever.retrieve gives the ranked snippets, or none
C_Web ==
    /\ InCrew /\ pc = "c_web"
    /\ Called("web_retrieve")
    /\ \E ws \in WebResults :
         /\ web_ev' = ws
         /\ IF ws = <<>>
            THEN Finish(Respond(NEI,
                     IF req.mode = "web_only"
                     THEN "Web search produced no usable evidence."
                     ELSE "Neither KG nor web search produced usable evidence."))
            ELSE Goto("c_web_classify")
    /\ UNCHANGED <<handler, req, triple, s_cands, o_cands, uris, paths, ranked,
                   label>>
    /\ Quiet

\* pipeline.py:79-111 (web_only) and 208-250 (hybrid)
C_WebClassify ==
    /\ InCrew /\ pc = "c_web_classify"
    /\ \E lbl \in WebVerdicts(req.classifierBackup, web_ev) :
         /\ Answered("web_classify", lbl)
         /\ label' = lbl
         /\ Finish(Respond(lbl, "web"))
    /\ UNCHANGED <<handler, req, triple, s_cands, o_cands, uris, paths, ranked,
                   web_ev>>
    /\ Quiet

\* -------------------------------------------------------------- the runs

Init ==
    /\ evidence = <<>> /\ nli_out = <<>> /\ agg = NoCall
    /\ ClfIdle
    /\ PipeIdle
    /\ KGIdle
    /\ RankIdle
    /\ RestIdle

Next ==
    \/ V_Receive \/ V_Extract \/ V_LinkSubject \/ V_LinkObject
    \/ V_FetchPaths \/ V_Rank \/ V_Classify \/ V_WebSearch \/ V_WebClassify
    \/ V2_Receive \/ V2_Link \/ V2_FetchPaths \/ V2_Rank \/ V2_Classify
    \/ C_ReceiveCrewAI \/ C_Call \/ C_KG \/ C_Rank \/ C_ClassifyKG
    \/ C_Web \/ C_WebClassify

Spec == Init /\ [][Next]_vars

-----------------------------------------------------------------------------
(* The knowledge-graph clients.  A SPARQL endpoint is what it holds (graph,
   a list of triples in the order it serves them), the queries it fails on
   (exception, timeout, or a body without results.bindings: each raises
   inside queryAndConvert()["results"]["bindings"]) and, for the aggregate
   query of _count_edges, the count it reports. *)

MaxUris == 2

\* the linked candidate URIs a call is made with, another resource, and
\* two literal values
CandUris == {"dbr:A", "dbr:B"}

Literals == {"text@en", "text@de"}

isLiteral(o) == o \in Literals

lang(o) == IF o = "text@en" THEN "en" ELSE IF o = "text@de" THEN "de" ELSE ""

\* a predicate IRI: its namespace and its local name, the local name a
\* sequence of its camel-case words (STRSTARTS is then the prefix order)
Pred(ns, local) == [ns |-> ns, local |-> local]

IsPrefix(a, b) == Len(a) <= Len(b) /\ SubSeq(b, 1, Len(a)) = a

RECURSIVE Concat(_)
Concat(ss) == IF ss = <<>> THEN <<>> ELSE Head(ss) \o Concat(Tail(ss))

Range(seq) == { seq[i] : i \in DOMAIN seq }

\* infrastructure/kg/kg_client2.py, lines 6-10
ALLOWED_PREFIXES == {"dbo", "dbp", "rdfs"}

\* lines 11-36
BLACKLIST_PREDICATES ==
    { Pred("dbo",  <<"wiki", "Page", "Wiki", "Link">>),
      Pred("dbo",  <<"wiki", "Page", "External", "Link">>),
      Pred("dbo",  <<"wiki", "Page", "Revision", "ID">>),
      Pred("dbo",  <<"wiki", "Page", "Length">>),
      Pred("dbo",  <<"wiki", "Page", "ID">>),
      Pred("dbo",  <<"wiki", "Page", "Redirects">>),
      Pred("rdf",  <<"type">>),
      Pred("dbp",  <<"wiki", "Page", "Uses", "Template">>),
      Pred("dbo",  <<"thumbnail">>),
      Pred("rdfs", <<"comment">>),
      Pred("dbp",  <<"image">>),
      Pred("dbp",  <<"image", "Caption">>),
      Pred("dbp",  <<"image", "Width">>),
      Pred("dbp",  <<"value">>),
      Pred("dbp",  <<"color">>),
      Pred("dbp",  <<"note">>),
      Pred("dbp",  <<"caption">>),
      Pred("rdfs", <<"label">>),
      Pred("dbp",  <<"reason">>),
      Pred("dbp",  <<"date">>),
      Pred("rdfs", <<"see", "Also">>),
      Pred("dbp",  <<"name">>),
      Pred("dbo",  <<"wiki", "Page", "Disambiguates">>) }

\* KGClient2.__init__, lines 54-56:
\* FILTER((STRSTARTS(STR(?p), allow) || ...) && !(STRSTARTS(STR(?p), deny) || ...))
predicate_filter(p) ==
    /\ p.ns \in ALLOWED_PREFIXES
    /\ ~ \E b \in BLACKLIST_PREDICATES :
            b.ns = p.ns /\ IsPrefix(b.local, p.local)

dbo_abstract == Pred("dbo", <<"abstract">>)

\* line 58: FILTER(!( ?p = dbo:abstract && !langMatches(lang(?o),'en') ))
object_filter(p, o) == ~(p = dbo_abstract /\ lang(o) # "en")

T(s, p, o) == [s |-> s, p |-> p, o |-> o]

\* what the DBpedia endpoints hold about the candidates
DBpedia ==
    << T("dbr:A", Pred("dbo", <<"capital">>), "dbr:B"),
       T("dbr:A", Pred("dbo", <<"wiki", "Page", "Wiki", "Link">>), "dbr:B"),
       T("dbr:B", Pred("owl", <<"same", "As">>), "dbr:A"),
       T("dbr:A", dbo_abstract, "text@en"),
       T("dbr:A", dbo_abstract, "text@de"),
       T("dbr:A", Pred("rdfs", <<"label">>), "text@en"),
       T("dbr:A", Pred("dbo", <<"leader">>), "dbr:X"),
       T("dbr:X", Pred("dbo", <<"birth", "Place">>), "dbr:A"),
       T("dbr:X", Pred("dbo", <<"country">>), "dbr:B"),
       T("dbr:B", Pred("dbp", <<"image", "Caption">>), "text@en") >>

\* and Wikidata
Wikidata ==
    << T("wd:Q1", Pred("wdt", <<"P36">>), "wd:Q2"),
       T("wd:Q1", Pred("wdt", <<"P6">>), "wd:Q3"),
       T("wd:Q3", Pred("wdt", <<"P27">>), "wd:Q2") >>

\* a query: the pattern the code builds (kind), the URIs it puts in it
\* and its LIMIT (0: none)
Q(kind, uri, other, limit) ==
    [kind |-> kind, uri |-> uri, other |-> other, limit |-> limit]

\* the WHERE clause of a one-pattern query, for the triple t
Matches(q, t) ==
    CASE q.kind = "q_out" ->          \* kg_client2.py:103-104
            t.s = q.uri /\ t.o = q.other /\ predicate_filter(t.p)
      [] q.kind = "q_in" ->           \* lines 108-109
            t.s = q.other /\ t.o = q.uri /\ predicate_filter(t.p)
      [] q.kind = "q_literals" ->     \* lines 114-120
            /\ t.s = q.uri /\ predicate_filter(t.p)
            /\ isLiteral(t.o) /\ object_filter(t.p, t.o)
      [] q.kind = "outgoing_q" ->     \* lines 126-131
            t.s = q.uri /\ predicate_filter(t.p) /\ object_filter(t.p, t.o)
      [] q.kind = "incoming_q" ->     \* lines 136-140
            t.o = q.uri /\ predicate_filter(t.p)
      [] q.kind = "out" ->            \* dbpedia_client.py:38
            t.s = q.uri
      [] q.kind = "in" ->             \* dbpedia_client.py:45
            t.o = q.uri
      [] OTHER -> FALSE

\* the FILTER on ?x of a two-hop query: isIRI(?x) (dbpedia_client.py:56),
\* !isBlank(?x) && STRSTARTS(STR(?x), "http://dbpedia.org/")
\* (services/kg_client.py:155-156), none (wikidata_client.py:50-53)
MidFilter(q, x) ==
    CASE q.kind = "two_hop_iri" -> ~isLiteral(x)
      [] q.kind = "two_hop_dbp" -> x \in {"dbr:A", "dbr:B", "dbr:X"}
      [] OTHER -> TRUE

IsTwoHop(q) == q.kind \in {"two_hop_iri", "two_hop_dbp", "two_hop"}

\* the solutions of <s> ?p1 ?x . ?x ?p2 <o>
TwoHopRows(q, g) ==
    Concat([i \in DOMAIN g |->
        IF g[i].s = q.uri /\ MidFilter(q, g[i].o)
        THEN LET second == SelectSeq(g, LAMBDA t :
                               t.s = g[i].o /\ t.o = q.other)
             IN [j \in DOMAIN second |->
                    [p1 |-> g[i].p, x |-> g[i].o, p2 |-> second[j].p]]
        ELSE <<>>])

\* the bindings the endpoint holding g has for q
Solutions(q, g) ==
    LET all == IF IsTwoHop(q) THEN TwoHopRows(q, g)
               ELSE SelectSeq(g, LAMBDA t : Matches(q, t))
    IN IF q.limit > 0 THEN Take(all, q.limit) ELSE all

\* queryAndConvert()["results"]["bindings"] for q sent to endpoint ep
Ask(ep, q) ==
    IF ep.dead \/ [q EXCEPT !.limit = 0] \in ep.down THEN Failure
    ELSE Ok(Solutions(q, ep.graph))

\* ------------------------------------------------------------ KGClient2

DEGREE_THRESHOLD == 20000      \* kg_client2.py:47

PAGE_SIZE == 1000              \* kg_client2.py:47

\* _page, lines 60-70: LIMIT page_size OFFSET offset until a batch is
\* empty; nothing is caught
RECURSIVE PageLoop(_, _, _, _)
PageLoop(ep, query, rows, offset) ==
    LET a == Ask(ep, query)
    IN IF a.kind = "raise" THEN Failure
       ELSE LET batch == SubSeq(a.value, offset + 1,
                                Min(offset + PAGE_SIZE, Len(a.value)))
            IN IF batch = <<>> THEN Ok(rows)
               ELSE PageLoop(ep, query, rows \o batch, offset + PAGE_SIZE)

_page(ep, query) == PageLoop(ep, query, <<>>, 0)

CountQ(uri) == Q("count", uri, "", 0)

Degree(n) == [inf |-> FALSE, n |-> n]

Infinite == [inf |-> TRUE, n |-> 0]          \* float('inf')

\* _count_edges, lines 72-82: the count the endpoint reports, float('inf')
\* when the query raised
_count_edges(ep, uri) ==
    LET a == IF ep.dead \/ CountQ(uri) \in ep.down THEN Failure
             ELSE ep.count[uri]
    IN IF a.kind = "raise" THEN Infinite ELSE Degree(a.value)

is_high_degree_inclusive(deg) == deg.inf \/ deg.n >= DEGREE_THRESHOLD

\* line 100: is_high_degree = deg > self.degree_threshold
is_high_degree(deg) == deg.inf \/ deg.n > DEGREE_THRESHOLD

\* the Edge a row of q becomes (lines 106, 111, 122, 133, 142;
\* dbpedia_client.py:40, 47, 61-66)
RowPath(q, row) ==
    CASE q.kind = "q_out"      -> << Edge(q.uri, row.p, q.other) >>
      [] q.kind = "q_in"       -> << Edge(q.other, row.p, q.uri) >>
      [] q.kind = "q_literals" -> << Edge(q.uri, row.p, row.o) >>
      [] q.kind = "outgoing_q" -> << Edge(q.uri, row.p, row.o) >>
      [] q.kind = "incoming_q" -> << Edge(row.s, row.p, q.uri) >>
      [] q.kind = "out"        -> << Edge(q.uri, row.p, row.o) >>
      [] q.kind = "in"         -> << Edge(row.s, row.p, q.uri) >>
      [] OTHER -> << Edge(q.uri, row.p1, row.x), Edge(row.x, row.p2, q.other) >>

RowPaths(q, rows) == [i \in DOMAIN rows |-> RowPath(q, rows[i])]

\* lines 101-122: the queries of the restricted strategy for uri, others
\* being uri_set - {uri} in the order the set is iterated in
RestrictedQueries(uri, others) ==
    Concat([i \in DOMAIN others |->
               << Q("q_out", uri, others[i], 0),
                  Q("q_in", uri, others[i], 0) >>])
    \o << Q("q_literals", uri, "", 0) >>

\* lines 123-142: the queries of the unrestricted strategy
FullQueries(uri) ==
    << Q("outgoing_q", uri, "", 0), Q("incoming_q", uri, "", 0) >>

\* the order a set of str is iterated in is that of the hashes of its
\* members, which are salted per process: c.order is the order of the
\* process the call runs in
CandOrder == <<"dbr:A", "dbr:B">>

KGStart == [kind |-> "ok", paths |-> <<>>, who |-> <<>>, sent |-> <<>>]

\* the queries qs of one URI sent in turn through _page, each row
\* appended as a one-edge path; an exception of _page ends the call.
\* who[i] is the URI whose iteration appended paths[i].
RECURSIVE RunPaged(_, _, _, _)
RunPaged(ep, uri, qs, acc) ==
    IF qs = <<>> \/ acc.kind = "raise" THEN acc
    ELSE LET q    == Head(qs)
             r    == _page(ep, q)
             sent == Append(acc.sent, [ep |-> "primary", q |-> q])
         IN RunPaged(ep, uri, Tail(qs),
               IF r.kind = "raise"
               THEN [acc EXCEPT !.kind = "raise", !.sent = sent]
               ELSE [acc EXCEPT
                       !.paths = @ \o RowPaths(q, r.value),
                       !.who   = @ \o [i \in DOMAIN r.value |-> uri],
                       !.sent  = sent])

\* the loop of fetch_paths, lines 96-142
RECURSIVE KGClient2_loop(_, _, _)
KGClient2_loop(c, i, acc) ==
    IF i > Len(c.uris) \/ acc.kind = "raise" THEN acc
    ELSE LET uri     == c.uris[i]
             uri_set == Range(c.uris)
             deg     == _count_edges(c.ep, uri)
             others  == SelectSeq(c.order, LAMBDA u : u \in uri_set \ {uri})
             counted == [acc EXCEPT !.sent =
                            Append(@, [ep |-> "primary", q |-> CountQ(uri)])]
         IN KGClient2_loop(c, i + 1,
               RunPaged(c.ep, uri,
                        IF is_high_degree(deg)
                        THEN RestrictedQueries(uri, others)
                        ELSE FullQueries(uri),
                        counted))

\* what the caller gets: the paths, or the exception
Outcome(acc) ==
    [called |-> TRUE, kind |-> acc.kind,
     paths  |-> IF acc.kind = "ok" THEN acc.paths ELSE <<>>,
     who    |-> IF acc.kind = "ok" THEN acc.who ELSE <<>>,
     sent   |-> acc.sent, retries |-> 0]

\* KGClient2.fetch_paths, lines 84-144
KGClient2_fetch_paths(c) == Outcome(KGClient2_loop(c, 1, KGStart))

\* the degree answers: the query raised, or a count
CountAnswers ==
    { Failure, Ok(0), Ok(DEGREE_THRESHOLD), Ok(DEGREE_THRESHOLD + 1) }

\* the queries about dbr:A one of which the endpoint may fail on
K2Faults ==
    { Q("q_out", "dbr:A", "dbr:B", 0),
      Q("q_literals", "dbr:A", "", 0), Q("outgoing_q", "dbr:A", "", 0),
      Q("incoming_q", "dbr:A", "", 0) }

K2Endpoints ==
    [graph : {DBpedia}, dead : {FALSE},
     down  : {{}} \cup { {q} : q \in K2Faults },
     count : [CandUris -> CountAnswers]]

K2Calls ==
    [client : {"KGClient2"}, uris : SeqsUpTo(CandUris, MaxUris),
     max_hops : {1, 2}, ep : K2Endpoints, order : {CandOrder}]

\* ----------------------------- KGClient (infrastructure/kg/kg_client.py)

LIMIT_EDGE == 10000            \* kg_client.py:34

LIMIT_TWO_HOP == 10000         \* kg_client.py:35

\* DBpediaClient._q, dbpedia_client.py:28-34 (WikidataQueryClient._q,
\* wikidata_client.py:25-31, is the same): any exception gives []
_q(ep, q) ==
    LET a == Ask(ep, q) IN IF a.kind = "raise" THEN <<>> ELSE a.value

\* the paths of a source tagged with it
Tagged(ps, kg) ==
    [i \in DOMAIN ps |->
        [j \in DOMAIN ps[i] |-> [ps[i][j] EXCEPT !.source_kg = kg]]]

Product(ss, os) ==
    Concat([i \in DOMAIN ss |-> [j \in DOMAIN os |-> <<ss[i], os[j]>>]])

TwoHopPairs_all(ss, os) == Product(ss, os)

\* kg_client.py:50-51: for s, o in itertools.product(...): if s != o
TwoHopPairs(ss, os) == SelectSeq(Product(ss, os), LAMBDA p : p[1] # p[2])

\* the queries of one source, kg_client.py:42-52 (55-63 for Wikidata);
\* two_hop is the two-hop pattern of the source's client
SourceQueries(ss, os, max_hops, two_hop, limit_edge, limit_two_hop) ==
    [i \in DOMAIN ss |-> Q("out", ss[i], "", limit_edge)]
    \o [i \in DOMAIN os |-> Q("in", os[i], "", limit_edge)]
    \o (IF max_hops >= 2
        THEN LET pairs == TwoHopPairs(ss, os)
             IN [i \in DOMAIN pairs |->
                    Q(two_hop, pairs[i][1], pairs[i][2], limit_two_hop)]
        ELSE <<>>)

\* fetch_outgoing_edges / fetch_incoming_edges / fetch_two_hop_paths
\* (dbpedia_client.py:37-68, wikidata_client.py:34-65) for each query
SourcePaths(ep, qs, kg) ==
    Tagged(Concat([i \in DOMAIN qs |-> RowPaths(qs[i], _q(ep, qs[i]))]), kg)

SentTo(name, qs) == [i \in DOMAIN qs |-> [ep |-> name, q |-> qs[i]]]

\* KGClient.fetch_paths, kg_client.py:27-65
KGClient_fetch_paths(c) ==
    LET dbp_qs == SourceQueries(c.s_dbp, c.o_dbp, c.max_hops, "two_hop_iri",
                                LIMIT_EDGE, LIMIT_TWO_HOP)
        wd_qs  == SourceQueries(c.s_wd, c.o_wd, c.max_hops, "two_hop",
                                LIMIT_EDGE, LIMIT_TWO_HOP)
        found  == SourcePaths(c.ep, dbp_qs, "dbpedia")
                  \o SourcePaths(c.wd, wd_qs, "wikidata")
    IN [called |-> TRUE, kind |-> "ok", paths |-> found,
        who |-> [i \in DOMAIN found |-> ""],
        sent |-> SentTo("primary", dbp_qs) \o SentTo("wikidata", wd_qs),
        retries |-> 0]

\* ----------------------------------- KGClient (services/kg_client.py)

S_LIMIT_EDGE == 100            \* services/kg_client.py:192

S_LIMIT_TWO_HOP == 50          \* services/kg_client.py:193

\* _fetch_dbpedia_paths_internal, lines 170-183, with _dbp_query
\* (lines 132-140) catching every exception
S_DbpQueries(c) ==
    SourceQueries(c.s_dbp, c.o_dbp, c.max_hops, "two_hop_dbp",
                  c.limit_per_edge_query, c.limit_per_two_hop_query)

AskQ == Q("ask", "", "", 0)

\* line 230: not dbp_paths and try_public_dbp_fallback and public_dbp_url
\* and self.initial_dbp_endpoint != public_dbp_url
S_FallsBack(c, dbp_paths) ==
    /\ dbp_paths = <<>>
    /\ c.try_public_dbp_fallback
    /\ c.public_dbp_url # ""
    /\ c.initial_dbp_endpoint # c.public_dbp_url

\* lines 222-258; retries counts the runs of
\* _fetch_dbpedia_paths_internal against the public endpoint
S_Dbpedia(c) ==
    LET qs      == S_DbpQueries(c)
        first   == SourcePaths(c.ep, qs, "dbpedia")
        healthy == Ask(c.pub, AskQ).kind = "ok"
    IN IF ~S_FallsBack(c, first)
       THEN [paths |-> first, sent |-> SentTo("primary", qs), retries |-> 0]
       ELSE IF ~healthy            \* lines 244-245 raise, 251-252
       THEN [paths |-> first, retries |-> 0,
             sent  |-> SentTo("primary", qs) \o SentTo("public", <<AskQ>>)]
       ELSE [paths |-> SourcePaths(c.pub, qs, "dbpedia"), retries |-> 1,
             sent  |-> SentTo("primary", qs)
                       \o SentTo("public", <<AskQ>> \o qs)]

\* lines 260-273
S_Wikidata(c) ==
    LET qs == SourceQueries(c.s_wd, c.o_wd, c.max_hops, "two_hop",
                            c.limit_per_edge_query,
                            c.limit_per_two_hop_query)
    IN IF c.s_wd # <<>> \/ c.o_wd # <<>>
       THEN [paths |-> SourcePaths(c.wd, qs, "wikidata"),
             sent  |-> SentTo("wikidata", qs)]
       ELSE [paths |-> <<>>, sent |-> <<>>]

\* lines 222-284, after a cache miss
S_Fetch(c) ==
    LET d == S_Dbpedia(c)
        w == S_Wikidata(c)
    IN [called |-> TRUE, kind |-> "ok", paths |-> d.paths \o w.paths,
        who |-> [i \in DOMAIN (d.paths \o w.paths) |-> ""],
        sent |-> d.sent \o w.sent, retries |-> d.retries]

Up(g) == [graph |-> g, dead |-> FALSE, down |-> {}]

Dead == [graph |-> <<>>, dead |-> TRUE, down |-> {}]

\* KGClient.fetch_paths, services/kg_client.py:185-284.  The cache holds
\* nothing for the key, what an earlier call with these arguments stored
\* (every endpoint answering), or something json.loads rejects; rdb.get
\* itself may raise.
S_KGClient_fetch_paths(c) ==
    CASE c.cache = "raise" ->
            [called |-> TRUE, kind |-> "raise", paths |-> <<>>,
             who |-> <<>>, sent |-> <<>>, retries |-> 0]
      [] c.cache = "hit" ->
            [S_Fetch([c EXCEPT !.ep = Up(DBpedia), !.pub = Up(DBpedia),
                               !.wd = Up(Wikidata)])
                EXCEPT !.sent = <<>>, !.retries = 0]
      [] OTHER -> S_Fetch(c)

\* ---------------------------------------------------------------- SpecKG
(* SpecKG: fetch_paths of each KG client applied to bounded arguments and
   endpoint behaviours *)

\* settings.DBPEDIA_ENDPOINT (or the dbp_endpoint argument) and
\* settings.DBPEDIA_ENDPOINT_PUBLIC, config.py:22-27; "" is unset
EndpointConfigs ==
    { [initial_dbp_endpoint |-> "local",  public_dbp_url |-> "public"],
      [initial_dbp_endpoint |-> "public", public_dbp_url |-> "public"],
      [initial_dbp_endpoint |-> "local",  public_dbp_url |-> ""] }

KGArgs ==
    [s_dbp : SeqsUpTo(CandUris, MaxUris), o_dbp : SeqsUpTo(CandUris, MaxUris),
     wd_uris : { [s |-> <<>>, o |-> <<>>],
                 [s |-> <<"wd:Q1">>, o |-> <<"wd:Q2">>] },
     max_hops : {1, 2}]

DbpBehaviours == { Up(DBpedia), Up(<<>>), Dead }

KCalls ==
    { [client |-> "KGClient",
       s_dbp |-> a.s_dbp, o_dbp |-> a.o_dbp,
       s_wd |-> a.wd_uris.s, o_wd |-> a.wd_uris.o,
       max_hops |-> a.max_hops, ep |-> ep, wd |-> wd,
       initial_dbp_endpoint |-> cfg.initial_dbp_endpoint,
       public_dbp_url |-> cfg.public_dbp_url] :
         a \in KGArgs, ep \in DbpBehaviours, wd \in {Up(Wikidata), Dead},
         cfg \in EndpointConfigs }

\* the environments of a services call that misses the cache, and three
\* that meet the other cache outcomes
SEnvs ==
    [ep : DbpBehaviours, pub : DbpBehaviours, wd : {Up(Wikidata), Dead},
     cfg : EndpointConfigs, try_public_dbp_fallback : BOOLEAN,
     cache : {"miss"}]
    \cup
    [ep : {Up(<<>>)}, pub : {Up(DBpedia)}, wd : {Up(Wikidata)},
     cfg : {[initial_dbp_endpoint |-> "local", public_dbp_url |-> "public"]},
     try_public_dbp_fallback : {TRUE},
     cache : {"hit", "corrupt", "raise"}]

SCalls ==
    { [client |-> "services.KGClient",
       s_dbp |-> a.s_dbp, o_dbp |-> a.o_dbp,
       s_wd |-> a.wd_uris.s, o_wd |-> a.wd_uris.o,
       max_hops |-> a.max_hops, ep |-> e.ep, pub |-> e.pub, wd |-> e.wd,
       limit_per_edge_query |-> S_LIMIT_EDGE,
       limit_per_two_hop_query |-> S_LIMIT_TWO_HOP,
       initial_dbp_endpoint |-> e.cfg.initial_dbp_endpoint,
       public_dbp_url |-> e.cfg.public_dbp_url,
       try_public_dbp_fallback |-> e.try_public_dbp_fallback,
       cache |-> e.cache] :
         a \in KGArgs, e \in SEnvs }

InitKG ==
    /\ evidence = <<>> /\ nli_out = <<>> /\ agg = NoCall
    /\ ClfIdle
    /\ PipeIdle
    /\ RankIdle
    /\ RestIdle
    /\ kg_call \in K2Calls \cup KCalls \cup SCalls
    /\ kg_ret = NoCall

FetchPaths(client, ret) ==
    /\ kg_ret = NoCall
    /\ kg_call.client = client
    /\ kg_ret' = ret
    /\ UNCHANGED <<kg_call, aggVars, clfVars, pipeVars, rankVars, restVars>>

K2_FetchPaths == FetchPaths("KGClient2", KGClient2_fetch_paths(kg_call))

K_FetchPaths == FetchPaths("KGClient", KGClient_fetch_paths(kg_call))

S_FetchPaths ==
    FetchPaths("services.KGClient", S_KGClient_fetch_paths(kg_call))

NextKG == K2_FetchPaths \/ K_FetchPaths \/ S_FetchPaths

SpecKG == InitKG /\ [][NextKG]_vars

-----------------------------------------------------------------------------
(* The evidence rankers applied to bounded pools (SpecRank).  An item of a
   pool carries what the models give for its text: sim, the bi-encoder's
   cosine similarity to the claim, and cross, the cross-encoder's relevance
   (both in hundredths; the cross-encoder's logits may be negative), its
   trust and final, the score an earlier stage left in
   "enhanced_final_score" (hundredths).  A returned item is its position in
   the pool and its score; "raise" is an exception reaching the caller. *)

MaxPool == 3

ItemPool ==
    { [trust |-> 90,  sim |-> 30, cross |-> 50,  final |-> 90],
      [trust |-> 50,  sim |-> 80, cross |-> 70,  final |-> 10],
      [trust |-> 10,  sim |-> 20, cross |-> 75,  final |-> 50],
      [trust |-> 100, sim |-> 50, cross |-> -20, final |-> 50] }

RankOk(items) == [called |-> TRUE, kind |-> "ok", items |-> items]

RankRaised == [called |-> TRUE, kind |-> "raise", items |-> <<>>]

FILTER_K == 200                \* evidence_ranker2.py:50

NoFilter == -1                 \* filter_k=None

\* EvidenceRanker2.top_k, evidence_ranker2.py:45-93; neither encoder call
\* is under a try
Ranker2_top_k(c) ==
    IF c.pool = <<>> THEN RankOk(<<>>)
    ELSE IF c.use_bi_encoder /\ c.bi_fails THEN RankRaised
    ELSE LET all    == [i \in DOMAIN c.pool |->
                          [i |-> i, score |-> c.pool[i].sim]]
             sorted == SortDesc(all)
             rerank == IF ~c.use_bi_encoder THEN all
                       ELSE IF c.filter_k = NoFilter THEN sorted
                       ELSE Take(sorted, c.filter_k)
         IN IF c.cross_fails THEN RankRaised
            ELSE RankOk(Take(SortDesc([j \in DOMAIN rerank |->
                    [i |-> rerank[j].i,
                     score    |-> c.pool[rerank[j].i].cross,
                     combined |-> c.pool[rerank[j].i].cross]]), c.k))

\* what zip() does with its second argument: a 1-d tensor is iterated, a
\* 0-d tensor raises TypeError and an unbound name NameError
Zippable(x) == x.bound /\ x.dim >= 1

\* _synthesise_bi_encoder, synthesiser.py:38-70.  After the loop of line
\* 45, `for ev, sim in zip(evidence, sims)`, the name sim is the last
\* similarity, a 0-d tensor (unbound when evidence is empty); line 56 zips
\* evidence with sim, and lines 57-61 would score every item with
\* float(sim): combined = 0.8*sim + 0.2*trust, in thousandths.
_synthesise_bi_encoder(c) ==
    IF c.bi_fails THEN RankRaised
    ELSE LET sim == IF c.pool = <<>>
                    THEN [bound |-> FALSE, dim |-> 0, value |-> 0]
                    ELSE [bound |-> TRUE, dim |-> 0,
                          value |-> c.pool[Len(c.pool)].sim]
         IN IF ~Zippable(sim) THEN RankRaised
            ELSE RankOk(Take(SortDesc([i \in DOMAIN c.pool |->
                    [i |-> i,
                     score    |-> 8 * sim.value + 2 * c.pool[i].trust,
                     combined |-> 8 * sim.value + 2 * c.pool[i].trust]]),
                    c.k))

\* _synthesise_cross_encoder, lines 73-102: combined = 0.8*cross +
\* 0.2*trust; scored[0] at line 97 raises on an empty list; every
\* exception goes to _synthesise_bi_encoder
_synthesise_cross_encoder(c) ==
    IF c.cross_fails \/ c.pool = <<>> THEN _synthesise_bi_encoder(c)
    ELSE RankOk(Take(SortDesc([i \in DOMAIN c.pool |->
            [i |-> i,
             score    |-> 8 * c.pool[i].cross + 2 * c.pool[i].trust,
             combined |-> 8 * c.pool[i].cross + 2 * c.pool[i].trust]]),
            c.k))

\* synthesise, lines 14-35
synthesise(c) ==
    IF c.pool = <<>> THEN RankOk(<<>>)
    ELSE IF c.use_cross_encoder THEN _synthesise_cross_encoder(c)
    ELSE _synthesise_bi_encoder(c)

\* WebEvidenceRanker.rank_evidence, web_evidence_ranker.py:15-42:
\* final_combined_score = 0.7*cross + 0.3*existing is stored on the item,
\* the sort key is cross_encoder_score; on an exception the key is
\* enhanced_final_score
rank_evidence(c) ==
    IF c.pool = <<>> THEN RankOk(<<>>)
    ELSE IF c.cross_fails
    THEN RankOk(Take(SortDesc([i \in DOMAIN c.pool |->
            [i |-> i, score |-> c.pool[i].final,
             combined |-> c.pool[i].final]]), c.k))
    ELSE RankOk(Take(SortDesc([i \in DOMAIN c.pool |->
            [i |-> i, score |-> c.pool[i].cross,
             combined |-> 7 * c.pool[i].cross + 3 * c.pool[i].final]]),
            c.k))

Pools == SeqsUpTo(ItemPool, MaxPool)

Ks == 0..MaxPool

R2Calls ==
    [ranker : {"EvidenceRanker2.top_k"}, pool : Pools, k : Ks,
     filter_k : {NoFilter, 2, FILTER_K}, use_bi_encoder : BOOLEAN,
     cross_fails : BOOLEAN, bi_fails : BOOLEAN]

SynCalls ==
    [ranker : {"synthesise"}, pool : Pools, k : Ks,
     use_cross_encoder : BOOLEAN, cross_fails : BOOLEAN, bi_fails : BOOLEAN]

WebRankCalls ==
    [ranker : {"WebEvidenceRanker.rank_evidence"}, pool : Pools, k : Ks,
     cross_fails : BOOLEAN]

InitRank ==
    /\ evidence = <<>> /\ nli_out = <<>> /\ agg = NoCall
    /\ ClfIdle
    /\ PipeIdle
    /\ KGIdle
    /\ RestIdle
    /\ rank_call \in R2Calls \cup SynCalls \cup WebRankCalls
    /\ rank_ret = NoCall

Rank(ranker, ret) ==
    /\ rank_ret = NoCall
    /\ rank_call.ranker = ranker
    /\ rank_ret' = ret
    /\ UNCHANGED <<rank_call, aggVars, clfVars, pipeVars, kgVars, restVars>>

R2_TopK == Rank("EvidenceRanker2.top_k", Ranker2_top_k(rank_call))

Syn_Synthesise == Rank("synthesise", synthesise(rank_call))

Web_RankEvidence ==
    Rank("WebEvidenceRanker.rank_evidence", rank_evidence(rank_call))

NextRank == R2_TopK \/ Syn_Synthesise \/ Web_RankEvidence

SpecRank == InitRank /\ [][NextRank]_vars

-----------------------------------------------------------------------------
(***************************************************************************)
(* The retrieval fan-out (core/crew/retrievers.py), checked under          *)
(* SpecGather.  gather_evidence awaits asyncio.gather over three           *)
(* coroutines; none of them awaits anything, so each runs to its end in    *)
(* one step of the event loop.  The loop is its queue of ready handles,    *)
(* run first in, first out: a task's step, the done callback gather put on *)
(* the task, and the step that resumes gather_evidence.                    *)
(***************************************************************************)

MaxBranch == 1

\* the last segment of a predicate IRI, e.predicate.split("/")[-1]: the
\* fragment prefix the segment keeps ("owl#" of owl#sameAs) and the name
PredName(p) ==
    [frag  |-> CASE p.ns = "owl"  -> "owl#"
                 [] p.ns = "rdfs" -> "rdf-schema#"
                 [] OTHER         -> "",
     local |-> p.local]

\* retrievers.py:25-32
_EXCLUDE ==
    { [frag |-> "", local |-> <<"wiki", "Page", "Wiki", "Link">>],
      [frag |-> "", local |-> <<"see", "Also">>],
      [frag |-> "rdf-schema#", local |-> <<"see", "Also">>],
      [frag |-> "", local |-> <<"type">>],
      [frag |-> "owl#", local |-> <<"same", "As">>],
      [frag |-> "owl#", local |-> <<"different", "From">>] }

\* str.lower() on the camel-case words of the model
LowerWord(w) ==
    CASE w = "Page" -> "page"
      [] w = "Wiki" -> "wiki"
      [] w = "Link" -> "link"
      [] OTHER      -> w

\* retrievers.py:37-38: the words of the name, lower case
_decamel(local) == [i \in DOMAIN local |-> LowerWord(local[i])]

NoSentence == [sub |-> "", pred_txt |-> <<>>, obj |-> ""]

\* retrievers.py:41-51
_edge_to_sentence(edge) ==
    IF PredName(edge.predicate) \in _EXCLUDE THEN NoSentence
    ELSE [sub |-> edge.subject, pred_txt |-> _decamel(edge.predicate.local),
          obj |-> edge.object]

\* retrievers.py:79-99: the evidence of the paths fetch_paths gave
RECURSIVE KGEvidence(_, _)
KGEvidence(ps, which) ==
    IF ps = <<>> THEN <<>>
    ELSE LET p    == Head(ps)
             rest == KGEvidence(Tail(ps), which)
         IN IF p = <<>> THEN rest
            ELSE IF PredName(p[1].predicate) \in _EXCLUDE THEN rest
            ELSE IF _edge_to_sentence(p[1]) = NoSentence THEN rest
            ELSE << [snippet |-> _edge_to_sentence(p[1]), source |-> which,
                     trust |-> 100] >> \o rest

\* _collect_kg, retrievers.py:55-99.  b is what the collaborators of the
\* branch do: whether linker.link raises for the subject or the object
\* (entity_linker.py:33-34, 50, 81, 112), and fetch_paths' answer.
_collect_kg(b, which) ==
    IF b.link_s = "raise" THEN Failure
    ELSE IF b.link_o = "raise" THEN Failure
    ELSE Ok(KGEvidence(b.paths, which))

collect_wikidata(c) == _collect_kg(c.wd, "wikidata")   \* retrievers.py:102-103

collect_dbpedia(c) == _collect_kg(c.dbp, "dbpedia")    \* retrievers.py:106-107

\* trust.py:46-65 on the links of the model (hundredths)
score_for_url(url) ==
    CASE url = "https://www.bbc.co.uk/news" -> 90
      [] url = "https://www.nasa.gov/"      -> 95
      [] OTHER                              -> 50

\* retrievers.py:115-128
RECURSIVE WebEvidence(_)
WebEvidence(results) ==
    IF results = <<>> THEN <<>>
    ELSE LET r == Head(results)
         IN IF r.snippet = "" THEN WebEvidence(Tail(results))
            ELSE << [snippet |-> r.snippet, source |-> r.link,
                     trust |-> score_for_url(r.link)] >>
                 \o WebEvidence(Tail(results))

\* collect_web, retrievers.py:110-128; _search_serper catches every
\* exception of the search and returns [] (web_verifier.py:162-206)
collect_web(c) ==
    Ok(WebEvidence(IF c.web.search = "raise" THEN <<>> ELSE c.web.results))

\* the coroutine of a branch, run to its end
RunBranch(c, i) ==
    CASE i = 1 -> collect_wikidata(c)
      [] i = 2 -> collect_dbpedia(c)
      [] OTHER -> collect_web(c)

Handle(do, i) == [do |-> do, task |-> i]

GReturned(t, wd, dbp, web) ==
    [called |-> TRUE, kind |-> "ok", triple |-> t, wikidata |-> wd,
     dbpedia |-> dbp, web |-> web]

GRaised ==
    [called |-> TRUE, kind |-> "raise", triple |-> "none",
     wikidata |-> <<>>, dbpedia |-> <<>>, web |-> <<>>]

\* the edges fetch_paths can give a branch: one the filter keeps, one it
\* drops
GEdges ==
    { Edge("dbr:A", Pred("dbo", <<"capital">>), "dbr:B"),
      Edge("dbr:A", Pred("dbo", <<"wiki", "Page", "Wiki", "Link">>), "dbr:B") }

KGBranches ==
    [link_s : {"ok", "raise"}, link_o : {"ok", "raise"},
     paths : SeqsUpTo({ <<e>> : e \in GEdges }, MaxBranch)]

WebHits ==
    { [snippet |-> "Paris is the capital", link |-> "https://www.bbc.co.uk/news"],
      [snippet |-> "", link |-> "https://www.nasa.gov/"] }

WebBranches ==
    [search : {"ok", "raise"}, results : SeqsUpTo(WebHits, MaxBranch)]

\* parse_claim_to_triple raised (triple_extractor.py:52, 57), gave None, or
\* gave a triple
GCalls ==
    [triple : {"raise", "none", "found"}, wd : KGBranches, dbp : KGBranches,
     web : WebBranches]

InitGather ==
    /\ evidence = <<>> /\ nli_out = <<>> /\ agg = NoCall
    /\ ClfIdle /\ PipeIdle /\ KGIdle /\ RankIdle
    /\ GatherIdle
    /\ CacheIdle /\ MoreIdle

GQuiet ==
    UNCHANGED <<aggVars, clfVars, pipeVars, kgVars, rankVars, cacheVars,
                moreVars>>

\* gather_evidence up to its await, retrievers.py:131-137: gather wraps the
\* three coroutines in tasks, each scheduled in the order given
G_Call ==
    /\ ga_call = NoCall
    /\ \E c \in GCalls :
          /\ ga_call' = [called |-> TRUE, c |-> c]
          /\ CASE c.triple = "raise" -> ga' = ga /\ ga_ret' = GRaised
               [] c.triple = "none"  ->
                    /\ ga' = ga
                    /\ ga_ret' = GReturned("none", <<>>, <<>>, <<>>)
               [] OTHER ->
                    /\ ga' = [ga EXCEPT
                                !.ready = [i \in DOMAIN BRANCHES |->
                                              Handle("step", i)],
                                !.main = "awaiting"]
                    /\ ga_ret' = NoCall
    /\ GQuiet

Ready(do) == ga.ready # <<>> /\ Head(ga.ready).do = do

\* the loop runs a task: the coroutine returns or raises, and the task's
\* done callbacks are scheduled
G_TaskStep ==
    /\ Ready("step")
    /\ LET i == Head(ga.ready).task
       IN ga' = [ga EXCEPT
                   !.tasks[i] = RunBranch(ga_call.c, i),
                   !.ready = Tail(ga.ready) \o << Handle("callback", i) >>]
    /\ UNCHANGED <<ga_call, ga_ret>>
    /\ GQuiet

\* gather's _done_callback with return_exceptions=False (retrievers.py:136:
\* gather is called without return_exceptions): the first exception of a
\* child is set on the outer future; the results are set when the last
\* child is done
G_DoneCallback ==
    /\ Ready("callback")
    /\ LET i    == Head(ga.ready).task
           n    == ga.nfinished + 1
           rest == Tail(ga.ready)
           wake == rest \o << Handle("resume", 0) >>
       IN ga' =
            IF ga.outer # Pending
            THEN [ga EXCEPT !.nfinished = n, !.ready = rest]
            ELSE IF ga.tasks[i].kind = "raise"
            THEN [ga EXCEPT !.nfinished = n, !.ready = wake,
                            !.outer = Failure]
            ELSE IF n = Len(BRANCHES)
            THEN [ga EXCEPT !.nfinished = n, !.ready = wake,
                            !.outer = Ok([j \in DOMAIN BRANCHES |->
                                             ga.tasks[j].value])]
            ELSE [ga EXCEPT !.nfinished = n, !.ready = rest]
    /\ UNCHANGED <<ga_call, ga_ret>>
    /\ GQuiet

\* gather_evidence resumes from its await, retrievers.py:136-139
G_Resume ==
    /\ Ready("resume")
    /\ ga' = [ga EXCEPT !.ready = Tail(ga.ready), !.main = "done"]
    /\ ga_ret' =
         IF ga.outer.kind = "raise" THEN GRaised
         ELSE GReturned("found", ga.outer.value[1], ga.outer.value[2],
                        ga.outer.value[3])
    /\ UNCHANGED ga_call
    /\ GQuiet

NextGather == G_Call \/ G_TaskStep \/ G_DoneCallback \/ G_Resume

SpecGather == InitGather /\ [][NextGather]_vars

-----------------------------------------------------------------------------
(***************************************************************************)
(* The path cache and the DBpedia handle of the services KGClient          *)
(* (services/kg_client.py), checked under SpecCache: fetch_paths called    *)
(* again and again on one redis store, with time passing and the process   *)
(* restarting between calls.                                               *)
(***************************************************************************)

MaxTicks == 2

TTL_S == 86400                 \* services/kg_client.py:279

\* the step of the clock: half the time an entry lives
TickSize == TTL_S \div 2

\* sorted(uris) of Python on the candidate URIs, "dbr:A" < "dbr:B"
RECURSIVE sorted(_)
sorted(us) ==
    IF us = <<>> THEN <<>>
    ELSE LET least == CHOOSE i \in DOMAIN CandOrder :
                         /\ CandOrder[i] \in Range(us)
                         /\ \A j \in 1..(i - 1) : CandOrder[j] \notin Range(us)
             u     == CandOrder[least]
         IN SelectSeq(us, LAMBDA x : x = u)
            \o sorted(SelectSeq(us, LAMBDA x : x # u))

\* hash() of a tuple of str: the hash of a str depends on the hash seed of
\* the process (PYTHONHASHSEED, random by default); hash(()) does not
PyHash(sd, tuple) ==
    [seed |-> IF tuple = <<>> THEN "" ELSE sd, of |-> tuple]

\* services/kg_client.py:198-211
cache_key(c, sd) ==
    [version |-> "pathsV3.1",
     s_dbp |-> PyHash(sd, sorted(c.s_dbp)),
     s_wd  |-> PyHash(sd, sorted(c.s_wd)),
     o_dbp |-> PyHash(sd, sorted(c.o_dbp)),
     o_wd  |-> PyHash(sd, sorted(c.o_wd)),
     max_hops |-> c.max_hops,
     limit_per_edge_query |-> c.limit_per_edge_query,
     limit_per_two_hop_query |-> c.limit_per_two_hop_query,
     endpoint |-> c.initial_dbp_endpoint]

\* lines 278-279: json.dumps of the edges' dicts, a str that is never empty
json_dumps(ps) == [json |-> ps]

\* lines 215-216: json.loads and Edge(**edge_dict)
json_loads(text) == text.json

\* rdb.get(key) at time t: redis gives the value set under the key unless
\* the time given to setex has passed
rdb_get(store, key, t) ==
    { e \in store : e.key = key /\ t < e.at + TTL_S }

\* rdb.setex(key, 86_400, value) at time t
rdb_setex(store, key, value, t) ==
    { e \in store : e.key # key } \cup {[key |-> key, value |-> value, at |-> t]}

\* a fallback whose handle stays on the public endpoint
S_Restore_skipped(saved, swapped) == swapped

\* lines 253-256, the finally of the fallback
S_Restore(saved, swapped) == saved

\* lines 225-256: the handle when the DBpedia part of the call is over;
\* first is what the first run of _fetch_dbpedia_paths_internal found
S_HandleAfter(h, c, first) ==
    LET saved   == [h EXCEPT !.active = c.initial_dbp_endpoint]  \* line 225
        swapped == [dbp_sparql |-> c.public_dbp_url,             \* 237-242
                    active |-> c.public_dbp_url]
    IN IF S_FallsBack(c, first) THEN S_Restore(saved, swapped) ELSE saved

\* the endpoint self._dbp_sparql stands for (_get_active_dbp_sparql,
\* lines 127-130)
S_Routed(h, c) ==
    [c EXCEPT !.ep = IF h.dbp_sparql = c.initial_dbp_endpoint
                     THEN c.ep ELSE c.pub]

\* KGClient.fetch_paths, lines 185-284, on the store, at time t, in a
\* process of hash seed sd, the client's handle being h: what it
\* returns, the store and the handle it leaves
S_fetch_paths(c, store, t, sd, h) ==
    LET key == cache_key(c, sd)
        hit == rdb_get(store, key, t)
    IN IF c.redis = "get_raises"                     \* line 213, no try
       THEN [ret |-> [called |-> TRUE, kind |-> "raise", paths |-> <<>>,
                      who |-> <<>>, sent |-> <<>>, retries |-> 0],
             rdb |-> store, kc |-> h]
       ELSE IF hit # {}                              \* lines 213-218
       THEN [ret |-> [called |-> TRUE, kind |-> "ok",
                      paths |-> json_loads((CHOOSE e \in hit : TRUE).value),
                      who |-> <<>>, sent |-> <<>>, retries |-> 0],
             rdb |-> store, kc |-> h]
       ELSE LET routed == S_Routed(h, c)             \* lines 222-284
                first  == SourcePaths(routed.ep, S_DbpQueries(c), "dbpedia")
                after  == S_HandleAfter(h, c, first)
            IN CHOOSE out \in
                 { [ret |-> r,
                    rdb |-> IF c.redis = "setex_raises" THEN store
                            ELSE rdb_setex(store, key, json_dumps(r.paths), t),
                    kc  |-> after] : r \in {S_Fetch(routed)} } : TRUE

\* ------------------------------------------------------------- SpecCache

\* the arguments of a call: one set of URIs in both orders under the
\* default limits, and in one order under another limit
CacheArgs ==
    [s_dbp : {<<"dbr:A", "dbr:B">>, <<"dbr:B", "dbr:A">>},
     o_dbp : {<<"dbr:B">>}, max_hops : {1},
     limit_per_edge_query : {S_LIMIT_EDGE},
     try_public_dbp_fallback : {TRUE}]
    \cup
    [s_dbp : {<<"dbr:A", "dbr:B">>}, o_dbp : {<<"dbr:B">>}, max_hops : {1},
     limit_per_edge_query : {S_LIMIT_TWO_HOP},
     try_public_dbp_fallback : {TRUE}]

\* what the endpoints and redis do during a call
CacheEnvs ==
    [ep : {Up(DBpedia), Up(<<>>)}, pub : {Up(DBpedia), Dead},
     redis : {"up"}]
    \cup
    [ep : {Up(DBpedia)}, pub : {Up(DBpedia)},
     redis : {"get_raises", "setex_raises"}]

CacheCall(a, e, cfg) ==
    [client |-> "services.KGClient",
     s_dbp |-> a.s_dbp, o_dbp |-> a.o_dbp, s_wd |-> <<>>, o_wd |-> <<>>,
     max_hops |-> a.max_hops,
     limit_per_edge_query |-> a.limit_per_edge_query,
     limit_per_two_hop_query |-> S_LIMIT_TWO_HOP,
     try_public_dbp_fallback |-> a.try_public_dbp_fallback,
     initial_dbp_endpoint |-> cfg.initial_dbp_endpoint,
     public_dbp_url |-> cfg.public_dbp_url,
     ep |-> e.ep, pub |-> e.pub, wd |-> Up(Wikidata), redis |-> e.redis]

\* the URI sets and the hop depth of a call
LogicalKey(c) ==
    [s_dbp |-> Range(c.s_dbp), s_wd |-> Range(c.s_wd),
     o_dbp |-> Range(c.o_dbp), o_wd |-> Range(c.o_wd),
     max_hops |-> c.max_hops]

InitCache ==
    /\ evidence = <<>> /\ nli_out = <<>> /\ agg = NoCall
    /\ ClfIdle /\ PipeIdle /\ KGIdle /\ RankIdle
    /\ GatherIdle /\ MoreIdle
    /\ rdb = {} /\ now = 0 /\ seed = HASH_SEEDS[1]
    /\ \E cfg \in EndpointConfigs :
          kc = [dbp_sparql |-> cfg.initial_dbp_endpoint,
                active |-> cfg.initial_dbp_endpoint,
                initial |-> cfg.initial_dbp_endpoint,
                public |-> cfg.public_dbp_url]
    /\ last = NoCall /\ written = {}

CQuiet ==
    UNCHANGED <<aggVars, clfVars, pipeVars, kgVars, rankVars, gaVars, moreVars>>

\* one call of fetch_paths; `written` remembers, for the URI sets and hop
\* depth of the call, the list the call stored and when
S_Call ==
    /\ \E a \in CacheArgs, e \in CacheEnvs :
          LET c   == CacheCall(a, e, [initial_dbp_endpoint |-> kc.initial,
                                      public_dbp_url |-> kc.public])
              h   == [dbp_sparql |-> kc.dbp_sparql, active |-> kc.active]
              lk  == LogicalKey(c)
          IN \E out \in {S_fetch_paths(c, rdb, now, seed, h)} :
             \E stored \in {out.rdb # rdb} :
             /\ rdb' = out.rdb
             /\ kc' = [kc EXCEPT !.dbp_sparql = out.kc.dbp_sparql,
                                  !.active = out.kc.active]
             /\ last' = [called |-> TRUE, key |-> lk, kind |-> out.ret.kind,
                         paths |-> out.ret.paths, sent |-> out.ret.sent,
                         start |-> h.dbp_sparql,
                         prior |-> { w \in written : w.key = lk },
                         stored |-> stored]
             /\ written' =
                  IF stored
                  THEN { w \in written : w.key # lk }
                       \cup {[key |-> lk, paths |-> out.ret.paths, at |-> now]}
                  ELSE written
    /\ UNCHANGED <<now, seed>>
    /\ CQuiet

\* time passes; redis drops the entries whose time is over
C_Tick ==
    /\ now < MaxTicks * TickSize
    /\ now' = now + TickSize
    /\ rdb' = { e \in rdb : now' < e.at + TTL_S }
    /\ last' = NoCall
    /\ UNCHANGED <<seed, kc, written>>
    /\ CQuiet

\* the process ends and a new one starts: a new hash seed, and a client
\* constructed anew (lines 100-115)
C_Restart ==
    /\ seed = HASH_SEEDS[1]
    /\ seed' = HASH_SEEDS[2]
    /\ kc' = [kc EXCEPT !.dbp_sparql = kc.initial, !.active = kc.initial]
    /\ last' = NoCall
    /\ UNCHANGED <<rdb, now, written>>
    /\ CQuiet

NextCache == S_Call \/ C_Tick \/ C_Restart

SpecCache == InitCache /\ [][NextCache]_vars

-----------------------------------------------------------------------------
(* Claims about _aggregate, checked under SpecAgg *)

\* the sum of trust*confidence over the items of the call labelled l
RECURSIVE SumWeights(_, _)
SumWeights(I, l) ==
    IF I = {} THEN 0
    ELSE LET i == CHOOSE j \in I : TRUE
         IN (IF nli_out[i].label = l
             THEN evidence[i].trust * nli_out[i].confidence ELSE 0)
            + SumWeights(I \ {i}, l)

support_mass == SumWeights(DOMAIN evidence, "entailment")

refute_mass == SumWeights(DOMAIN evidence, "contradiction")

\* C1: the label _aggregate returns is Supported or Refuted exactly when
\* total = support_mass + refute_mass > 0.6 and max(support_mass,
\* refute_mass)/total > 0.7 (Supported if support_mass > refute_mass, else
\* Refuted), and Not Enough Info in every other case; neutral items add to
\* neither mass.
C1_AggregateLabel ==
    agg.called =>
        LET total    == support_mass + refute_mass
            decisive == /\ total > 6000
                        /\ 10 * Max(support_mass, refute_mass) > 7 * total
        IN /\ decisive /\ support_mass > refute_mass
                  => agg.label = "Supported"
           /\ decisive /\ ~(support_mass > refute_mass)
                  => agg.label = "Refuted"
           /\ ~decisive => agg.label = "Not Enough Info"

\* Scenario C reached: three items, two contradictions (trust 0.9,
\* confidence 0.8) and a neutral one, refute_mass 1.44, label Refuted
C1_Witness ==
    /\ agg.called
    /\ Len(evidence) = 3
    /\ \E i \in DOMAIN nli_out : nli_out[i].label = "neutral"
    /\ refute_mass = 14400 /\ support_mass = 0
    /\ agg.label = "Refuted"

\* C10: with trust and confidence in [0,1], the confidence _aggregate
\* returns lies in [0,1] (0..1000 thousandths).
C10_ConfidenceInUnitInterval ==
    agg.called => agg.confidence \in 0..1000

-----------------------------------------------------------------------------
(* Claims about the classifiers, checked under SpecClassify *)

\* C9: every classifier of the verdict stage returns one of the three
\* canonical labels, whatever text or JSON the oracle returned.
C9_CanonicalLabel ==
    (judged.called /\ reply.ok) =>
        (judged.kind = "ok" /\ judged.label \in LabelSet)

-----------------------------------------------------------------------------
(* Claims about the runs, checked under Spec *)

Done == pc = "done"

HasCall(names) == \E i \in DOMAIN log : log[i].call \in names

KG_CALLS == {"fetch_paths", "kg_retrieve"}

WEB_CALLS == {"web_search", "web_retrieve"}

\* the handlers that have a web branch behind the KG branch
HasWebBranch == handler = "verify" \/ (InCrew /\ req.mode = "hybrid")

\* C2: every run on a non-empty claim ends with a result that carries one
\* of the three canonical labels; none ends without a result, with a result
\* without label or with an exception reaching the caller.
C2_EveryRunLabelled ==
    (Done /\ req.claim # "") =>
        (response.status = 200 /\ response.label \in LabelSet)

\* C3: a KG classification that yields Supported or Refuted is the last
\* call of its run (no web search, no ranking, no second classification
\* follows) and the run has returned that label.
C3_DecisiveKGVerdictIsFinal ==
    \A i \in DOMAIN log :
        (log[i].call = "classify" /\ log[i].out \in {"Supported", "Refuted"})
            => /\ i = Len(log)
               /\ Done
               /\ response.status = 200
               /\ response.label = log[i].out

\* /verify ranked the paths, the judge said Refuted and the run returned it
C3_Witness ==
    /\ handler = "verify" /\ Done
    /\ ranked # <<>>
    /\ log # <<>> /\ log[Len(log)] = Entry("classify", "Refuted")
    /\ response.label = "Refuted"

\* a web search at position i of the log comes after a KG retrieval of the
\* same run that was inconclusive: no path, or a Not Enough Info verdict
AfterInconclusiveKG(i) ==
    /\ \E j \in 1..(i - 1) : log[j].call \in KG_CALLS
    /\ \/ paths = <<>>
       \/ \E k \in 1..(i - 1) : log[k] = Entry("classify", NEI)

C5_WebVerdictIsFinal ==
    (HasWebBranch /\ Done /\ \E i \in DOMAIN log : log[i] = Entry("classify", NEI))
        => /\ response.status = 200
           /\ HasCall(WEB_CALLS \cup {"llm_fallback_classify"})
           /\ log[Len(log)].call = "web_classify"
                  => response.label = log[Len(log)].out

\* C6: a KG retrieval that returns zero paths sends the run to the web
\* branch: no ranker and no classifier runs on KG evidence, and the label
\* the run returns is the web branch's.
C6_ZeroPathsSkipToWeb ==
    (HasWebBranch /\ paths = <<>> /\ HasCall(KG_CALLS))
        => /\ ~HasCall({"top_k", "classify"})
           /\ (Done /\ response.status = 200) => response.reason # "kg"

\* entity linking came back without a KB URI for the subject or the object
Unlinked ==
    \/ /\ handler = "verify"
       /\ \/ Len(log) >= 2 /\ log[2] = Entry("link", "ok")
                            /\ DbpUris(s_cands) = <<>> /\ WdUris(s_cands) = <<>>
          \/ Len(log) >= 3 /\ log[3] = Entry("link", "ok")
                            /\ DbpUris(o_cands) = <<>> /\ WdUris(o_cands) = <<>>
    \/ /\ handler = "verify2"
       /\ Len(log) >= 1 /\ log[1] = Entry("link", "ok") /\ uris = <<>>

\* C7: when entity linking yields no KB URI for the subject or for the
\* object, fetch_paths is never called and the run returns Not Enough Info
\* with the could-not-link reason.
C7_UnlinkedIsNotEnoughInfo ==
    Unlinked
        => /\ ~HasCall({"fetch_paths"})
           /\ Done => response = Respond(NEI, "Could not link entities to KG URIs.")

\* the web search of the fallback raised, or came back without a snippet
WebSearchFailed ==
    \/ \E i \in DOMAIN log : log[i] = Entry("web_search", "raise")
    \/ /\ \E i \in DOMAIN log : log[i].call \in WEB_CALLS /\ log[i].out = "ok"
       /\ web_ev = <<>>

\* C8: when the web search of the fallback fails, times out or yields no
\* snippet, the run still returns a verdict, and its label is Not Enough
\* Info.
C8_WebFailureIsNotEnoughInfo ==
    (HasWebBranch /\ Done /\ WebSearchFailed)
        => (response.status = 200 /\ response.label = NEI)


-----------------------------------------------------------------------------
(* Claims about the KG clients, checked under SpecKG *)

\* the call is over: fetch_paths returned or raised
Fetched == kg_ret.called

\* the endpoint a sent query went to
EpOf(name) ==
    CASE name = "public"   -> kg_call.pub
      [] name = "wikidata" -> kg_call.wd
      [] OTHER             -> kg_call.ep

\* a path without its source tag
Bare(path) == [j \in DOMAIN path |-> [path[j] EXCEPT !.source_kg = ""]]

ReturnedPaths == { Bare(kg_ret.paths[i]) : i \in DOMAIN kg_ret.paths }

\* the cache of the services client plays no part in the call
SparqlOnly == kg_call.client = "services.KGClient" => kg_call.cache = "miss"

\* C11: when a SPARQL query of fetch_paths fails, the call still returns
\* normally and its result holds the edges of every query of the call that
\* was answered; no exception reaches the caller.
C11_QueryFailureIsZeroResults ==
    (Fetched /\ SparqlOnly) =>
        /\ kg_ret.kind = "ok"
        /\ \A i \in DOMAIN kg_ret.sent :
              LET q == kg_ret.sent[i].q
                  a == Ask(EpOf(kg_ret.sent[i].ep), q)
              IN (q.kind \notin {"count", "ask"} /\ a.kind = "ok")
                 => \A k \in DOMAIN a.value :
                       Bare(RowPath(q, a.value[k])) \in ReturnedPaths

\* the degree query of uri raised
CountFailed(uri) == _count_edges(kg_call.ep, uri).inf

SentKinds(uri) ==
    { kg_ret.sent[i].q.kind :
        i \in { j \in DOMAIN kg_ret.sent : kg_ret.sent[j].q.uri = uri } }

\* C12: a URI whose degree query failed is treated as not high-degree: the
\* unrestricted outgoing query is sent for it and no query of the
\* restricted strategy.
C12_CountFailureFailsOpen ==
    (Fetched /\ kg_call.client = "KGClient2") =>
        \A uri \in Range(kg_call.uris) :
            (CountFailed(uri) /\ "count" \in SentKinds(uri)) =>
                /\ "outgoing_q" \in SentKinds(uri)
                /\ SentKinds(uri) \cap {"q_out", "q_in", "q_literals"} = {}

\* the degree the endpoint reported for uri (its query answered)
Estimated(uri) == ~CountFailed(uri)

EstimatedDegree(uri) == _count_edges(kg_call.ep, uri).n

\* the paths the iteration of uri appended
Contributed(uri) ==
    { kg_ret.paths[i] : i \in { j \in DOMAIN kg_ret.paths : kg_ret.who[j] = uri } }

\* the edges the endpoint holds out of and into uri that pass the
\* predicate filter (and, outgoing, the abstract-language filter)
FullOutgoing(uri) ==
    { << Edge(t.s, t.p, t.o) >> :
        t \in { x \in Range(kg_call.ep.graph) :
                  x.s = uri /\ predicate_filter(x.p) /\ object_filter(x.p, x.o) } }

FullIncoming(uri) ==
    { << Edge(t.s, t.p, t.o) >> :
        t \in { x \in Range(kg_call.ep.graph) :
                  x.o = uri /\ predicate_filter(x.p) } }

\* an edge between two candidate URIs, one of them uri, or from uri to a
\* literal
IsRestrictedPath(path, uri) ==
    /\ Len(path) = 1
    /\ \/ /\ path[1].subject \in Range(kg_call.uris)
          /\ path[1].object \in Range(kg_call.uris)
          /\ uri \in {path[1].subject, path[1].object}
       \/ path[1].subject = uri /\ isLiteral(path[1].object)

\* C13: for a URI whose estimated degree exceeds the threshold no
\* unrestricted edge query is sent and every path it contributes is an edge
\* between it and another candidate URI or an edge from it to a literal; a
\* URI whose estimated degree is at or below the threshold contributes its
\* full outgoing and incoming edge sets.
C13_HighDegreeIsRestricted ==
    (Fetched /\ kg_call.client = "KGClient2") =>
        \A uri \in Range(kg_call.uris) :
            /\ (Estimated(uri) /\ EstimatedDegree(uri) > DEGREE_THRESHOLD) =>
                  /\ SentKinds(uri) \cap {"outgoing_q", "incoming_q"} = {}
                  /\ \A path \in Contributed(uri) : IsRestrictedPath(path, uri)
            /\ (Estimated(uri) /\ EstimatedDegree(uri) <= DEGREE_THRESHOLD
                /\ kg_ret.kind = "ok") =>
                  FullOutgoing(uri) \cup FullIncoming(uri) \subseteq Contributed(uri)

\* a call that returned for a high-degree and a low-degree URI, the first
\* contributing an edge to the second and a literal, the second an edge
\* from a resource outside the candidate set
C13_Witness ==
    /\ Fetched /\ kg_call.client = "KGClient2" /\ kg_ret.kind = "ok"
    /\ kg_call.uris = <<"dbr:A", "dbr:B">>
    /\ Estimated("dbr:A") /\ EstimatedDegree("dbr:A") > DEGREE_THRESHOLD
    /\ Estimated("dbr:B") /\ EstimatedDegree("dbr:B") = DEGREE_THRESHOLD
    /\ \E path \in Contributed("dbr:A") : path[1].object = "dbr:B"
    /\ \E path \in Contributed("dbr:A") : isLiteral(path[1].object)
    /\ \E path \in Contributed("dbr:B") : path[1].subject = "dbr:X"
    /\ "q_literals" \in SentKinds("dbr:A")

\* the subject and object candidate URIs of the call (KGClient2 takes
\* one list for both)
SubjectUris ==
    IF kg_call.client = "KGClient2" THEN Range(kg_call.uris)
    ELSE Range(kg_call.s_dbp) \cup Range(kg_call.s_wd)

ObjectUris ==
    IF kg_call.client = "KGClient2" THEN Range(kg_call.uris)
    ELSE Range(kg_call.o_dbp) \cup Range(kg_call.o_wd)

WellFormed(path) ==
    /\ Len(path) \in {1, 2}
    /\ kg_call.max_hops = 1 => Len(path) = 1
    /\ Len(path) = 2 =>
          /\ path[1].object = path[2].subject
          /\ path[1].subject \in SubjectUris
          /\ path[2].object \in ObjectUris
          /\ path[1].subject # path[2].object

\* C14: every path fetch_paths returns has 1 or 2 edges, exactly 1 when
\* max_hops = 1; a 2-edge path is chained through its middle node, starts
\* at a subject candidate, ends at an object candidate, and the two differ.
C14_PathsWellFormed ==
    Fetched => \A i \in DOMAIN kg_ret.paths : WellFormed(kg_ret.paths[i])

\* a call whose subject and object candidates share a URI that has a
\* two-hop path to itself, and which returned a two-hop path
C14_Witness ==
    /\ Fetched /\ kg_call.client = "KGClient"
    /\ "dbr:A" \in Range(kg_call.s_dbp) \cap Range(kg_call.o_dbp)
    /\ TwoHopRows(Q("two_hop_iri", "dbr:A", "dbr:A", 0), kg_call.ep.graph) # <<>>
    /\ \E i \in DOMAIN kg_ret.paths : Len(kg_ret.paths[i]) = 2

owl_sameAs == Pred("owl", <<"same", "As">>)

\* the deny-list: the configured predicates (by prefix, as the filter
\* applies them) and sameAs
InDenyList(p) ==
    \/ \E b \in BLACKLIST_PREDICATES : b.ns = p.ns /\ IsPrefix(b.local, p.local)
    \/ p = owl_sameAs

\* C15: no edge of a path returned by fetch_paths, of any KG client, has a
\* predicate of the deny-list.
C15_NoDeniedPredicate ==
    Fetched =>
        \A i \in DOMAIN kg_ret.paths : \A j \in DOMAIN kg_ret.paths[i] :
            ~InDenyList(kg_ret.paths[i][j].predicate)

\* the primary endpoint yielded no DBpedia path
PrimaryEmpty ==
    \A i \in DOMAIN kg_ret.sent :
        kg_ret.sent[i].ep = "primary" =>
            _q(kg_call.ep, kg_ret.sent[i].q) = <<>>

FallbackDue ==
    /\ PrimaryEmpty
    /\ kg_call.public_dbp_url # ""
    /\ kg_call.public_dbp_url # kg_call.initial_dbp_endpoint

PublicQueried == \E i \in DOMAIN kg_ret.sent : kg_ret.sent[i].ep = "public"

\* C16: the public endpoint is queried only when the primary yielded zero
\* DBpedia paths and a public endpoint is configured that differs from the
\* primary; then the retrieval is run against it exactly once, and
\* otherwise it is never queried.
C16_FallbackRetriedOnce ==
    (Fetched /\ kg_call.client # "KGClient2" /\ SparqlOnly) =>
        /\ FallbackDue => (PublicQueried /\ kg_ret.retries = 1)
        /\ ~FallbackDue => (~PublicQueried /\ kg_ret.retries = 0)

-----------------------------------------------------------------------------
(* Claims about the evidence rankers, checked under SpecRank *)

Ranked == rank_ret.called

\* the cross-encoder is called: every ranker but synthesise in its
\* bi-encoder mode
UsesCrossEncoder ==
    rank_call.ranker = "synthesise" => rank_call.use_cross_encoder

\* the bi-encoder is called
UsesBiEncoder ==
    \/ rank_call.ranker = "EvidenceRanker2.top_k" /\ rank_call.use_bi_encoder
    \/ rank_call.ranker = "synthesise"
       /\ (~rank_call.use_cross_encoder \/ rank_call.cross_fails)

\* every model call of the ranking answered
ModelsAnswer ==
    /\ UsesCrossEncoder => ~rank_call.cross_fails
    /\ UsesBiEncoder => ~rank_call.bi_fails

\* at most k items, each a different item of the pool
FromPool(items) ==
    /\ Len(items) <= rank_call.k
    /\ \A a \in DOMAIN items : items[a].i \in DOMAIN rank_call.pool
    /\ \A a, b \in DOMAIN items : a # b => items[a].i # items[b].i

\* C17: for every pool and k the ranker returns at most k items, each an
\* item of the pool, in order of non-increasing combined score; an empty
\* pool gives an empty result and no error.
C17_TopKSortedFromPool ==
    (Ranked /\ ModelsAnswer) =>
        /\ rank_ret.kind = "ok"
        /\ FromPool(rank_ret.items)
        /\ \A a, b \in DOMAIN rank_ret.items :
              a < b => rank_ret.items[a].combined >= rank_ret.items[b].combined
        /\ rank_call.pool = <<>> => rank_ret.items = <<>>

\* C18: when the cross-encoder call fails the ranker does not raise: it
\* returns at most k items of the pool in order of non-increasing
\* bi-encoder score.
C18_CrossEncoderFailureFallsBack ==
    (Ranked /\ UsesCrossEncoder /\ rank_call.cross_fails
     /\ (UsesBiEncoder => ~rank_call.bi_fails)) =>
        /\ rank_ret.kind = "ok"
        /\ FromPool(rank_ret.items)
        /\ \A a, b \in DOMAIN rank_ret.items :
              a < b => rank_call.pool[rank_ret.items[a].i].sim
                           >= rank_call.pool[rank_ret.items[b].i].sim

-----------------------------------------------------------------------------
(* Claims about the LLM judges, checked under SpecClassify; evidence is the
   list the judge was called with *)

LLM_JUDGES == {"Verifier.classify", "Verifier2.classify", "Verifier3.classify"}

JudgedByLLM == judged.called /\ judged.by \in LLM_JUDGES

ReturnedNEI == judged.kind = "ok" /\ judged.label = "Not Enough Info"

\* C19: an LLM judge called with an empty evidence list returns Not Enough
\* Info, whatever the LLM answers.
C19_EmptyEvidenceIsNotEnoughInfo ==
    (JudgedByLLM /\ evidence = <<>> /\ reply.ok) => ReturnedNEI

\* the reply gives a canonical label neither as the "label" of a JSON
\* object nor as a substring of its text
NoLabelFound ==
    /\ reply.ok
    /\ ~(reply.json = "object" /\ reply.label \in LabelSet)
    /\ ScanLabels(reply) = "absent"

\* C20: when the LLM call fails, or the reply yields no canonical label by
\* structured parsing or by the label scan, the judge returns Not Enough
\* Info, with or without evidence.
C20_JudgeFailureIsNotEnoughInfo ==
    (JudgedByLLM /\ (~reply.ok \/ NoLabelFound)) => ReturnedNEI

(***************************************************************************)
(* Claims about the evidence handed to the ranker, checked under SpecKG    *)
(***************************************************************************)

\* the key (subject, predicate, object) of each edge of a path
TripleKey(path) == Bare(path)

\* C21: the list fetch_paths hands to the ranker holds each triple key
\* (subject, predicate, object) once, also when two retrieval calls of the
\* same fetch_paths call return the triple.
C21_EvidenceDeduplicated ==
    Fetched =>
        \A i, j \in DOMAIN kg_ret.paths :
            TripleKey(kg_ret.paths[i]) = TripleKey(kg_ret.paths[j]) => i = j

(***************************************************************************)
(* Claims about the retrieval fan-out, checked under SpecGather            *)
(***************************************************************************)

Gathered == ga_ret.called /\ ga_call.c.triple = "found"

AllBranchesDone == \A i \in DOMAIN BRANCHES : ga.tasks[i] # Pending

\* what a branch contributes: its evidence, or nothing when it failed
Contribution(i) ==
    IF ga.tasks[i].kind = "ok" THEN ga.tasks[i].value ELSE <<>>

\* gather_evidence goes on only when the three branches are done
JoinsAllBranches == Gathered => AllBranchesDone

\* C22: gather_evidence goes on only after its three branches have
\* completed, and it returns to its caller the evidence of every branch
\* that succeeded and an empty list for every branch that failed.
C22_FanOutJoinsAndIsolates ==
    Gathered =>
        /\ AllBranchesDone
        /\ ga_ret.kind = "ok"
        /\ ga_ret.wikidata = Contribution(1)
        /\ ga_ret.dbpedia = Contribution(2)
        /\ ga_ret.web = Contribution(3)

(***************************************************************************)
(* Claims about the path cache and the DBpedia handle of the services      *)
(* KGClient, checked under SpecCache                                       *)
(***************************************************************************)

CacheCalled == last.called

\* what an earlier call with the URI sets and hop depth of this call
\* stored, if it stored it less than the TTL ago
StoredInTTL == { w \in last.prior : now < w.at + TTL_S }

\* the same, stored the TTL ago or earlier
StoredBeforeTTL == { w \in last.prior : now >= w.at + TTL_S }

\* C23: a fetch_paths call whose candidate-URI sets (in any list order) and
\* hop depth are those of an earlier call that stored its path list less
\* than 24 h ago returns exactly that list, the empty list included, and
\* sends no SPARQL query; when the list was stored 24 h ago or earlier the
\* call queries the KG again and writes the entry anew.
C23_PathCacheWithinTTL ==
    CacheCalled =>
        /\ \A w \in StoredInTTL :
              /\ last.kind = "ok"
              /\ last.paths = w.paths
              /\ last.sent = <<>>
        /\ \A w \in StoredBeforeTTL :
              /\ last.kind = "ok"
              /\ last.sent # <<>>
              /\ last.stored

\* the public endpoint answered the queries of the call just made
PublicAnswered ==
    \E i \in DOMAIN last.sent :
        last.sent[i].ep = "public" /\ last.sent[i].q.kind # "ask"

\* the fallback of the call just made ended at its health check
FallbackFailed ==
    /\ \E i \in DOMAIN last.sent : last.sent[i].ep = "public"
    /\ ~PublicAnswered

\* C30: when fetch_paths has returned, with the fallback to the public
\* endpoint not attempted, successful or failed, the client's DBpedia
\* handle and its active endpoint are the primary ones, every call starts
\* against the primary endpoint, and every cache key is made with the
\* primary endpoint, whichever endpoint answered.
C30_HandleRestoredAfterFallback ==
    CacheCalled =>
        /\ kc.dbp_sparql = kc.initial
        /\ kc.active = kc.initial
        /\ last.start = kc.initial
        /\ \A e \in rdb : e.key.endpoint = kc.initial

\* a call answered by the public endpoint, its list stored
C30_Witness ==
    /\ CacheCalled /\ PublicAnswered /\ last.stored
    /\ last.paths # <<>>

-----------------------------------------------------------------------------
(* Claims about the ranker's noise filter, checked under Spec *)

\* the handler has called its ranker's top_k
RankerCalled == \E i \in DOMAIN log : log[i].call = "top_k"

\* an edge of the path has a predicate is_weak_predicate matches
WeakPath(path) == \E j \in DOMAIN path : is_weak_predicate(path[j].predicate)

-----------------------------------------------------------------------------
(* infrastructure/kg/kg_client2.py: KGClient2._page, lines 60-70, one
   iteration of its loop at a time (SpecPage); fetch_all_triples of
   dbpedia.py, lines 34-49, is the same loop with batch_size for page_size.

   The endpoint is what it answers to the first, second, ... query of the
   call: a page of at most LIMIT rows, or an error; `tail` is its answer
   to every query after those.  An endpoint whose tail is a full page
   never returns an empty page. *)

page_size == 2                 \* the page_size of the client (line 51)

MaxPages == 2                  \* the answers an endpoint lists

MaxQueries == MaxPages + 2     \* the queries followed of a call

\* a page of k rows
Page(k) == [i \in 1..k |-> [row |-> i]]

Pages == { Page(k) : k \in 0..page_size }

FullPage == Page(page_size)

PageEndpoints ==
    [pages : SeqsUpTo(Pages, MaxPages), tail : {<<>>, FullPage},
     fail : 0..(MaxPages + 1)]

\* the bindings of the n-th query of the call
Bindings(ep, n) == IF n <= Len(ep.pages) THEN ep.pages[n] ELSE ep.tail

\* line 63: the LIMIT and OFFSET of the query
PageQuery(offset) == [limit |-> page_size, offset |-> offset]

\* the loop fetching the page it has just fetched again
NextOffset_same(offset) == offset

\* line 69: offset += self.page_size
NextOffset(offset) == offset + page_size

InitPage ==
    /\ evidence = <<>> /\ nli_out = <<>> /\ agg = NoCall
    /\ ClfIdle /\ PipeIdle /\ KGIdle /\ RankIdle
    /\ GatherIdle /\ CacheIdle /\ MoreIdle

PQuiet ==
    UNCHANGED <<aggVars, clfVars, pipeVars, kgVars, rankVars, gaVars,
                cacheVars, elVars, runVars>>

\* line 61: rows, offset = [], 0
P_Call ==
    /\ ~pg_call.called
    /\ \E ep \in PageEndpoints : pg_call' = [called |-> TRUE, ep |-> ep]
    /\ pg' = PageStart
    /\ UNCHANGED pg_ret
    /\ PQuiet

\* lines 62-70, one pass of the while loop: the query is sent; it raises
\* out of _page, or its empty batch ends the loop and rows is returned, or
\* its batch is appended and the offset advanced
P_Iterate ==
    /\ pg_call.called /\ ~pg_ret.called
    /\ Len(pg.sent) < MaxQueries
    /\ LET n     == Len(pg.sent) + 1
           sent  == Append(pg.sent, PageQuery(pg.offset))
           batch == Bindings(pg_call.ep, n)
       IN IF pg_call.ep.fail = n
          THEN /\ pg' = [pg EXCEPT !.sent = sent]
               /\ pg_ret' = [called |-> TRUE, kind |-> "raise", rows |-> <<>>]
          ELSE IF batch = <<>>
          THEN /\ pg' = [pg EXCEPT !.sent = sent]
               /\ pg_ret' = [called |-> TRUE, kind |-> "ok", rows |-> pg.rows]
          ELSE /\ pg' = [rows |-> pg.rows \o batch,
                         offset |-> NextOffset(pg.offset), sent |-> sent]
               /\ UNCHANGED pg_ret
    /\ UNCHANGED pg_call
    /\ PQuiet

NextPage == P_Call \/ P_Iterate

\* the loop is sequential code: it takes its next step
SpecPage == InitPage /\ [][NextPage]_vars /\ WF_vars(NextPage)

-----------------------------------------------------------------------------
(* Claims about the pagination loop, checked under SpecPage *)

\* the endpoint answers some query of the call with an empty page
AnswersEmpty(ep) == ep.tail = <<>> \/ \E i \in DOMAIN ep.pages : ep.pages[i] = <<>>

\* the first query the endpoint answers with an empty page
FirstEmpty(ep) ==
    CHOOSE n \in 1..(Len(ep.pages) + 1) :
        /\ Bindings(ep, n) = <<>>
        /\ \A m \in 1..(n - 1) : Bindings(ep, m) # <<>>

PageReturned == pg_ret.called /\ pg_ret.kind = "ok"

\* the i-th query is at offset (i-1)*page_size with LIMIT page_size, and a
\* returned call sent its last query at the first empty page and returns
\* the pages before it, in order
PagesUntilEmpty ==
    /\ \A i \in DOMAIN pg.sent :
          pg.sent[i] = [limit |-> page_size, offset |-> (i - 1) * page_size]
    /\ PageReturned =>
          /\ AnswersEmpty(pg_call.ep)
          /\ Len(pg.sent) = FirstEmpty(pg_call.ep)
          /\ pg_ret.rows =
                Concat([m \in 1..(FirstEmpty(pg_call.ep) - 1) |->
                            Bindings(pg_call.ep, m)])

\* C27: _page queries at offsets 0, page_size, 2*page_size, ..., stops at
\* the first empty page and returns the concatenation, in order, of the
\* non-empty pages before it; a call on an endpoint that answers some query
\* with an empty page ends.
C27_PagesUntilFirstEmpty ==
    /\ []PagesUntilEmpty
    /\ (pg_call.called /\ AnswersEmpty(pg_call.ep)) ~> pg_ret.called

\* a call that returned the rows of two pages, the second one short
C27_Witness ==
    /\ PageReturned
    /\ Len(pg.sent) = 3
    /\ Len(pg_ret.rows) = 2 * page_size - 1

-----------------------------------------------------------------------------
(* Claims about EntityLinker.link, checked under Spec on the candidates of
   the subject *)

\* /verify has linked a subject that is not blank
SubjectLinked ==
    handler = "verify" /\ pc = "link_o" /\ Strip(triple.subject) # ""

\* between 1 and top_k candidates, by non-increasing score
RankedCandidates(cands, top_k) ==
    /\ Len(cands) \in 1..top_k
    /\ \A i, j \in DOMAIN cands : i < j => cands[i].score >= cands[j].score

\* C28: link on a surface form that is not blank returns between 1 and top_k
\* candidates, sorted by non-increasing score, at least one of them with a
\* DBpedia URI.
C28_LinkGivesDbpediaCandidate ==
    SubjectLinked =>
        /\ RankedCandidates(s_cands, LINK_TOP_K)
        /\ DbpUris(s_cands) # <<>>

-----------------------------------------------------------------------------
(* Claims about how the LLM judges read the reply, checked under
   SpecClassify *)

PARSING_JUDGES ==
    LLM_JUDGES \cup {"services.Verifier.classify",
                     "WebVerifier._classify_with_llm"}

\* the reply parses as an object whose label is canonical; WebVerifier also
\* parses the object of a fenced or braced block
ParsedLabel ==
    /\ reply.label \in LabelSet
    /\ \/ reply.json = "object"
       \/ /\ judged.by = "WebVerifier._classify_with_llm"
          /\ reply.json = "none" /\ reply.embedded = "object"

JudgeReturned(l) == judged.kind = "ok" /\ judged.label = l

\* C25: an LLM judge returns the canonical label of a reply that parses as
\* an object; otherwise, when the raw text contains a canonical label, it
\* returns the first one found, tried in the order Supported, Refuted,
\* Not Enough Info, ignoring case.
C25_ParseThenScan ==
    (judged.called /\ judged.by \in PARSING_JUDGES /\ reply.ok) =>
        IF ParsedLabel THEN JudgeReturned(reply.label)
        ELSE ScanLabels(reply) # "absent" => JudgeReturned(ScanLabels(reply))

-----------------------------------------------------------------------------
(* services/entity_extractor.py: _link_to_dbpedia, lines 110-128, with the
   worker of its ThreadPoolExecutor and the daemon thread it starts on a
   timeout (SpecLabel).  Each action is one step of one thread; redis
   serialises the commands of the threads.

   el_call.first is what the search submitted to the pool does and
   el_call.second what the search of the background thread does: the list
   _run_sparql_label_search returns, or that it raises. *)

LabelHits == { <<>>, <<[uri |-> "dbr:A", score |-> 90]>>,
               <<[uri |-> "dbr:B", score |-> 80]>> }

SearchOutcomes == {Failure} \cup { Ok(h) : h \in LabelHits }

\* the entry lbl:<label> before the call: absent, or what a call stored
CacheBefore == {<<>>} \cup { <<json_dumps(h)>> : h \in LabelHits }

InitLabel ==
    /\ evidence = <<>> /\ nli_out = <<>> /\ agg = NoCall
    /\ ClfIdle /\ PipeIdle /\ KGIdle /\ RankIdle
    /\ GatherIdle /\ CacheIdle /\ MoreIdle

EQuiet ==
    UNCHANGED <<aggVars, clfVars, pipeVars, kgVars, rankVars, gaVars,
                cacheVars, pgVars, runVars>>

E_Call ==
    /\ ~el_call.called
    /\ \E first \in SearchOutcomes, second \in SearchOutcomes,
          before \in CacheBefore :
          /\ el_call' = [called |-> TRUE, first |-> first, second |-> second]
          /\ el' = [ThreadsIdle EXCEPT !.caller = "get", !.cache = before]
    /\ UNCHANGED el_ret
    /\ EQuiet

\* lines 112-117: a stored string is returned parsed (the text of a list
\* is never the empty string); on a miss the search is submitted
E_Get ==
    /\ el.caller = "get"
    /\ IF el.cache # <<>>
       THEN /\ el' = [el EXCEPT !.caller = "returned"]
            /\ el_ret' = [called |-> TRUE, kind |-> "ok",
                          value |-> json_loads(el.cache[1])]
       ELSE /\ el' = [el EXCEPT !.caller = "wait", !.worker = "running"]
            /\ UNCHANGED el_ret
    /\ UNCHANGED el_call
    /\ EQuiet

\* the pool's worker: _run_sparql_label_search returned or raised
E_WorkerDone ==
    /\ el.worker = "running"
    /\ el' = [el EXCEPT !.worker = "done"]
    /\ UNCHANGED <<el_call, el_ret>>
    /\ EQuiet

\* line 119, the search ended within the wait: its list, or its exception
\* raised out of the with block and of the call
E_Result ==
    /\ el.caller = "wait" /\ el.worker = "done"
    /\ IF el_call.first.kind = "raise"
       THEN /\ el' = [el EXCEPT !.caller = "returned"]
            /\ el_ret' = [called |-> TRUE, kind |-> "raise", value |-> <<>>]
       ELSE /\ el' = [el EXCEPT !.caller = "exit",
                                !.linked = el_call.first.value]
            /\ UNCHANGED el_ret
    /\ UNCHANGED el_call
    /\ EQuiet

\* lines 120-126, the 2 s passed with the search still running: linked = []
\* and the daemon thread is started
E_Timeout ==
    /\ el.caller = "wait" /\ el.worker = "running"
    /\ el' = [el EXCEPT !.caller = "exit", !.linked = <<>>,
                        !.bg = "search", !.timed_out = TRUE]
    /\ UNCHANGED <<el_call, el_ret>>
    /\ EQuiet

\* line 116, leaving the with block: ThreadPoolExecutor.__exit__ is
\* shutdown(wait=True), which joins the worker
E_Exit ==
    /\ el.caller = "exit" /\ el.worker = "done"
    /\ el' = [el EXCEPT !.caller = "setex"]
    /\ UNCHANGED <<el_call, el_ret>>
    /\ EQuiet

\* lines 127-128
E_Setex ==
    /\ el.caller = "setex"
    /\ el' = [el EXCEPT !.caller = "returned", !.cache = <<json_dumps(el.linked)>>]
    /\ el_ret' = [called |-> TRUE, kind |-> "ok", value |-> el.linked]
    /\ UNCHANGED el_call
    /\ EQuiet

\* line 124, the thread's search: an exception ends the thread
E_BgSearch ==
    /\ el.bg = "search"
    /\ IF el_call.second.kind = "raise"
       THEN el' = [el EXCEPT !.bg = "died"]
       ELSE el' = [el EXCEPT !.bg = "setex",
                             !.bg_value = el_call.second.value]
    /\ UNCHANGED <<el_call, el_ret>>
    /\ EQuiet

\* line 124, the thread's rdb.setex
E_BgSetex ==
    /\ el.bg = "setex"
    /\ el' = [el EXCEPT !.bg = "done", !.cache = <<json_dumps(el.bg_value)>>]
    /\ UNCHANGED <<el_call, el_ret>>
    /\ EQuiet

NextLabel ==
    \/ E_Call \/ E_Get \/ E_WorkerDone \/ E_Result \/ E_Timeout \/ E_Exit
    \/ E_Setex \/ E_BgSearch \/ E_BgSetex

SpecLabel == InitLabel /\ [][NextLabel]_vars

-----------------------------------------------------------------------------
(* Claims about _link_to_dbpedia, checked under SpecLabel *)

\* the wait timed out, the call has returned and the background thread has
\* stored the result of its search
BackgroundCompleted ==
    el.timed_out /\ el_ret.called /\ el.bg = "done"

\* C29: when the label search does not finish within the 2 s wait the call
\* returns the empty list, and once the background search has completed the
\* entry lbl:<label> holds the search's result, whatever the order of the
\* caller's and the background thread's cache writes.
C29_BackgroundResultStaysCached ==
    BackgroundCompleted =>
        /\ el_ret.kind = "ok" /\ el_ret.value = <<>>
        /\ el.cache = <<json_dumps(el_call.second.value)>>

-----------------------------------------------------------------------------
(* SpecRuns: one server process serves /verify and /verify2 requests in
   turn, and may be restarted.  What a run keeps for the next is the
   module-level dict of triple_extractor.py (line 11); what a restart
   changes is the hash seed of str, and with it the order a set of URIs is
   iterated in (kg_client2.py:93, 102).  A run is one action: the handler
   from the request to the response, with the collaborators' responses
   env of the run. *)

MaxRuns == 3                   \* the requests followed

RunClaims == {"c", "the c"}

\* triple_extractor.py:40: re.sub(r"\b(a|an|the)\b\s+", "", claim)
strip_articles(claim) == IF claim = "the c" THEN "c" ELSE claim

\* line 41
sha256(text) == [sha256 |-> text]

\* what chat() gives _llm_extract: it raised (or the arguments are no JSON),
\* a message without tool calls, or the triples of the tool call
NoToolCalls == [kind |-> "ok", tool_calls |-> FALSE, triples |-> <<>>]

ToolCall(ts) == [kind |-> "ok", tool_calls |-> TRUE, triples |-> ts]

ExtractReplies ==
    { [kind |-> "raise", tool_calls |-> FALSE, triples |-> <<>>],
      NoToolCalls, ToolCall(<<>>),
      ToolCall(<<[found |-> TRUE, subject |-> "Paris", object |-> "France"]>>),
      ToolCall(<<[found |-> TRUE, subject |-> "", object |-> "France"]>>) }

\* _llm_extract, lines 39-60: the list returned or that it raised, and the
\* dict after the call
_llm_extract(claim, msg, dict) ==
    LET key == sha256(strip_articles(claim))
    IN IF \E e \in dict : e.key = key
       THEN [kind |-> "ok", cache |-> dict,
             triples |-> (CHOOSE e \in dict : e.key = key).value]
       ELSE IF msg.kind = "raise"
       THEN [kind |-> "raise", cache |-> dict, triples |-> <<>>]
       ELSE IF ~msg.tool_calls
       THEN [kind |-> "ok", cache |-> dict, triples |-> <<>>]
       ELSE [kind |-> "ok", triples |-> msg.triples,
             cache |-> dict \cup {[key |-> key, value |-> msg.triples]}]

\* parse_claim_to_triple, lines 66-70
parse_claim_to_triple(triples) ==
    IF triples # <<>> THEN triples[1] ELSE NoTriple

\* the response of a run: status, label and evidence
RunOut(status, l, ev) == [status |-> status, label |-> l, evidence |-> ev]

RunFailed == RunOut(500, "absent", <<>>)

\* the encoders' scores, a function of the path: the same for every path,
\* or higher for the paths that start at dbr:A
ScoreKinds == {"flat", "by_subject"}

ScoreOf(kind, path) ==
    IF kind = "by_subject" /\ path[1].subject = "dbr:A"
    THEN [sim |-> 30, ent |-> 0]
    ELSE [sim |-> 20, ent |-> 100]

Scores(kind, ps) == [i \in DOMAIN ps |-> ScoreOf(kind, ps[i])]

JudgeSays(l) ==
    [ok |-> TRUE, json |-> "object", embedded |-> "none", label |-> l,
     reasonStr |-> TRUE, scan |-> {l}]

\* the collaborators of /verify: the extraction reply, the lookups of the
\* linker, the paths of KGClient.fetch_paths, the scores, the judge's reply
\* and the web search and reply of the fallback
VerifyEnvs ==
    [extract : ExtractReplies,
     lk : {[wd |-> Answer(<<"dbr:A">>), dl |-> Answer(<<>>),
            sp |-> Answer(<<>>)]},
     paths : {<<<<Edge("S", P_capital, "O")>>>>},
     score : {"flat"},
     reply : {JudgeSays("Supported"), JudgeSays(NEI)},
     web : {<<[source |-> "bbc.co.uk", trust |-> 90]>>},
     web_reply : {JudgeSays("Refuted")}]

\* routes.py:104-182, /verify from the extracted triple on
VerifyFrom(extracted, env) ==
    LET s == link(extracted.subject, LINK_TOP_K, env.lk)
        o == link(extracted.object, LINK_TOP_K, env.lk)
        r == EvidenceRanker_top_k(env.paths, VERIFY_K,
                                  Scores(env.score, env.paths))
        best_path == IF r = <<>> THEN <<>> ELSE r[1].path
        kg  == Verifier_classify(env.reply)
        web == llm_fallback_parse(env.web_reply)
    IN IF s.kind = "raise" \/ o.kind = "raise" THEN RunFailed
       ELSE IF NotLinked(s.value, o.value) THEN RunOut(200, NEI, <<>>)
       ELSE IF env.paths # <<>> /\ r = <<>> THEN RunFailed
       ELSE IF kg.kind = "raise" THEN RunFailed
       ELSE IF ~StillNotEnoughInfo(kg.label)
            THEN RunOut(200, kg.label, best_path)
       ELSE IF web.kind = "raise" THEN RunFailed
       ELSE RunOut(200, web.label,
                   IF env.web # <<>> THEN env.web ELSE best_path)

\* routes.py:83-182: the response, and the dict after the run
verify(claim, env, dict) ==
    LET x == _llm_extract(claim, env.extract, dict)
        extracted == parse_claim_to_triple(x.triples)
    IN [cache |-> x.cache,
        out |-> IF x.kind = "raise" THEN RunFailed
                ELSE IF ~extracted.found THEN RunOut(200, NEI, <<>>)
                ELSE VerifyFrom(extracted, env)]

\* the orders a process iterates the set of the three URIs in
SetOrders == { <<"dbr:A", "dbr:B", "dbr:X">>, <<"dbr:X", "dbr:B", "dbr:A">> }

\* the collaborators of /verify2: the URIs of EntityLinker2.link, the
\* endpoint (every URI above the degree threshold), the scores and the
\* judge's reply
Verify2Envs ==
    [dbp : {<<"dbr:A", "dbr:B", "dbr:X">>},
     ep : {[graph |-> DBpedia, dead |-> FALSE, down |-> {},
            count |-> [u \in {"dbr:A", "dbr:B", "dbr:X"} |->
                          Ok(DEGREE_THRESHOLD + 1)]]},
     score : ScoreKinds,
     reply : {JudgeSays("Supported")}]

\* routes.py:184-299
verify2(claim, env, order) ==
    LET kg == KGClient2_fetch_paths(
                  [client |-> "KGClient2", uris |-> env.dbp, max_hops |-> 1,
                   ep |-> env.ep, order |-> order])
        ranked2 == EvidenceRanker2_top_k(kg.paths, VERIFY2_K,
                                         Scores(env.score, kg.paths))
        v == Verifier2_classify(env.reply)
    IN IF env.dbp = <<>> THEN RunOut(200, NEI, <<>>)
       ELSE IF kg.kind = "raise" \/ v.kind = "raise" THEN RunFailed
       ELSE RunOut(200, v.label,
                   [i \in DOMAIN ranked2 |-> ranked2[i].path])

InitRuns ==
    /\ evidence = <<>> /\ nli_out = <<>> /\ agg = NoCall
    /\ ClfIdle /\ PipeIdle /\ KGIdle /\ RankIdle
    /\ GatherIdle /\ CacheIdle /\ PageIdle /\ LabelIdle
    /\ \E order \in SetOrders : proc = FreshProcess(order)
    /\ seen = {}

DQuiet ==
    UNCHANGED <<aggVars, clfVars, pipeVars, kgVars, rankVars, gaVars,
                cacheVars, pgVars, elVars>>

Seen(handler_name, claim, env, out) ==
    [handler |-> handler_name, claim |-> claim, env |-> env, out |-> out]

D_Verify ==
    /\ proc.served < MaxRuns
    /\ \E claim \in RunClaims, env \in VerifyEnvs :
          \E run \in {verify(claim, env, proc.cache)} :
             /\ proc' = [proc EXCEPT !.cache = run.cache, !.served = @ + 1]
             /\ seen' = seen \cup {Seen("verify", claim, env, run.out)}
    /\ DQuiet

D_Verify2 ==
    /\ proc.served < MaxRuns
    /\ \E claim \in RunClaims, env \in Verify2Envs :
          \E out \in {verify2(claim, env, proc.order)} :
             /\ proc' = [proc EXCEPT !.served = @ + 1]
             /\ seen' = seen \cup {Seen("verify2", claim, env, out)}
    /\ DQuiet

\* the server is started again: an empty dict, another hash seed
D_Restart ==
    /\ proc.served > 0
    /\ \E order \in SetOrders :
          proc' = [FreshProcess(order) EXCEPT !.served = proc.served]
    /\ UNCHANGED seen
    /\ DQuiet

NextRuns == D_Verify \/ D_Verify2 \/ D_Restart

SpecRuns == InitRuns /\ [][NextRuns]_vars

-----------------------------------------------------------------------------
(* Claims about repeated runs, checked under SpecRuns *)

\* C24: two runs of a handler on the same claim with the same collaborator
\* responses give the same label and the same evidence in the same order,
\* whatever the process served before and whatever order it iterates the
\* set of candidate URIs in.
C24_RunsDeterministic ==
    \A a, b \in seen :
        (a.handler = b.handler /\ a.claim = b.claim /\ a.env = b.env)
            => a.out = b.out

====
